---------------------------- MODULE Spec2Model ----------------------------
(***************************************************************************)
(* A model of the two pipelines of the repository:                         *)
(*   Round1A/process_pdfs.py  PDFStructureExtractor  (title and outline)   *)
(*   Round1B/process_pdfs.py  PersonaDrivenAnalyzer  (ranked sections)     *)
(*                                                                         *)
(* Text is a sequence of one-character strings, so that str.lower, strip,  *)
(* split, the "in" test and the regular expressions are computed on the    *)
(* characters as Python computes them.  Heading scores, preferences and    *)
(* weights are kept in hundredths (0.7 is 70), font sizes in whole points, *)
(* size thresholds in tenths; a relevance score is an exact fraction.      *)
(***************************************************************************)
EXTENDS Integers, Sequences, FiniteSets, TLC

VARIABLES
  \* --- Round1A, extract_document_outline / post_process_outline ---
  outline,            \* the candidate list built by extract_document_outline
  scanPage,           \* the next page the element loop will reach
  filtered_outline,   \* what post_process_outline returned
  rerun_outline,      \* post_process_outline applied to its own output
  pcOutline,          \* "collect" | "processed" | "reprocessed"
  \* --- Round1A, calculate_heading_score ---
  elem,               \* the text element given to calculate_heading_score
  dominant_size,      \* doc_stats["dominant_size"]
  heading_score,      \* the score returned, in hundredths
  pcHeading,          \* "element" | "scored"
  \* --- Round1A, analyze_document_statistics ---
  text_elements,      \* the elements extract_formatted_text returned
  doc_stats,          \* what analyze_document_statistics returned
  pcStats,            \* "extract" | "analyzed"
  \* --- Round1B, SectionRanker.rank_and_select ---
  scored_sections,    \* the scored sections of the collection
  docIndex,           \* how many documents have added their sections
  selected_sections,  \* what rank_and_select returned
  pcRank,              \* "score" | "ranked"
  \* --- Round1B, PersonaAnalyzer.create_persona_profile ---
  persona,            \* the persona text of the configuration
  persona_profile,    \* what create_persona_profile returned
  pcPersona,           \* "config" | "profiled"
  \* --- Round1A, process_all_pdfs ---
  input_dir,          \* os.listdir(input_dir): the file names, in listing order
  pdf_files,          \* the names that end with ".pdf"
  filePos,            \* position of the for loop in pdf_files
  extraction,         \* per file processed: what extract_document_structure did
  output_dir,         \* the files of the output directory: name -> content
  save_failed,        \* some save_json_result call has raised
  pcBatch,             \* "listing" | "batch" | "done" | "crashed"
  \* --- Round1B, process_document_collection ---
  listed,             \* the document names of the configuration file, or the
                      \* file names of the input directory when there is none
  config,             \* what load_configuration returned
  config_source,      \* "file" | "default"
  docPos,             \* position of the loop of extract_documents
  doc_status,         \* per listed document: "missing" | "unreadable" | "readable"
  documents,          \* what extract_documents has collected
  segPos,             \* position of the "for doc in documents" loop
  all_sections,       \* the sections of the documents segmented so far
  result,             \* <<>> or <<what generate_output returned>>
  output_file,        \* <<>> or <<content of challenge1b_output.json>>
  raised,             \* a step of the try block has raised
  pcFlow,             \* "input" | "extract" | "segment" | "rank" | "generate" |
                      \* "save" | "handler" | "done" | "aborted"
  \* --- Round1B, DocumentProcessor.extract_document_sections ---
  pages_content,      \* document["content"]["pages"]: the pages with their elements
  returned_sections,  \* what extract_document_sections returned
  pcSegment,          \* "extract" | "segmented"
  \* --- Round1B, DocumentProcessor.is_section_heading ---
  line_elem,          \* the element given to is_section_heading
  line_analysis,      \* doc_analysis of the document the element is in
  heading_verdict,    \* what is_section_heading returned
  pcLine,             \* "test" | "tested"
  \* --- Round1B, process_document_collection from segmenting to the result ---
  segmented,          \* all_sections: the sections of the documents segmented so far
  scored,             \* what score_sections returned
  top_sections,       \* what rank_and_select returned
  collection_output,  \* <<>> or <<what generate_output returned>>
  pcOutput,           \* "segment" | "rank" | "generate" | "generated"
  \* --- Round1A, extract_document_title ---
  title_elements,     \* text_elements as extract_formatted_text returned them
  document_title,     \* <<>> or <<what extract_document_title returned>>
  pcTitle,            \* "extract" | "titled"
  \* --- Round1A, determine_heading_level ---
  level_elem,         \* the element given to determine_heading_level
  level_thresholds,   \* doc_stats["size_thresholds"], in tenths of a point
  heading_level,      \* "" or what determine_heading_level returned
  pcLevel,            \* "level" | "levelled"
  \* --- Round1B, RelevanceScorer ---
  score_profile,      \* the profile create_persona_profile returned
  score_section,      \* the section being scored
  sub_scores,         \* the five sub-scores of the section
  relevance,          \* what calculate_relevance_score returned, <<num, den>>
  pcScoring           \* "profile" | "section" | "scored"

varsOutline == <<outline, scanPage, filtered_outline, rerun_outline, pcOutline>>
varsHeading == <<elem, dominant_size, heading_score, pcHeading>>
varsStats == <<text_elements, doc_stats, pcStats>>
varsRank == <<scored_sections, docIndex, selected_sections, pcRank>>

varsPersona == <<persona, persona_profile, pcPersona>>
varsBatch ==
  <<input_dir, pdf_files, filePos, extraction, output_dir, save_failed, pcBatch>>
varsFlow ==
  <<listed, config, config_source, docPos, doc_status, documents, segPos,
    all_sections, result, output_file, raised, pcFlow>>
varsSegment == <<pages_content, returned_sections, pcSegment>>
varsLine == <<line_elem, line_analysis, heading_verdict, pcLine>>
varsOutput == <<segmented, scored, top_sections, collection_output, pcOutput>>
varsTitle == <<title_elements, document_title, pcTitle>>
varsLevel == <<level_elem, level_thresholds, heading_level, pcLevel>>
varsScoring == <<score_profile, score_section, sub_scores, relevance, pcScoring>>
vars == <<varsOutline, varsHeading, varsStats, varsRank, varsPersona, varsBatch, varsFlow, varsSegment, varsLine, varsOutput, varsTitle, varsLevel, varsScoring>>

----------------------------------------------------------------------------
(* Characters and strings                                                  *)

UpperChars == <<"A","B","C","D","E","F","G","H","I","J","K","L","M",
                "N","O","P","Q","R","S","T","U","V","W","X","Y","Z">>
LowerChars == <<"a","b","c","d","e","f","g","h","i","j","k","l","m",
                "n","o","p","q","r","s","t","u","v","w","x","y","z">>
UpperSet == {UpperChars[i] : i \in 1..26}
LowerSet == {LowerChars[i] : i \in 1..26}
DigitSet == {"0","1","2","3","4","5","6","7","8","9"}
SpaceSet == {" "}

\* str.lower() on one character
LowerChar(c) ==
  IF c \in UpperSet
    THEN LowerChars[CHOOSE i \in 1..26 : UpperChars[i] = c]
    ELSE c

\* str.lower()
Lower(s) == [i \in 1..Len(s) |-> LowerChar(s[i])]

\* str.strip(): leading and trailing whitespace removed
Strip(s) ==
  IF \A i \in 1..Len(s) : s[i] \in SpaceSet THEN <<>>
  ELSE LET lo == CHOOSE i \in 1..Len(s) :
                   s[i] \notin SpaceSet /\ \A j \in 1..(i - 1) : s[j] \in SpaceSet
           hi == CHOOSE i \in 1..Len(s) :
                   s[i] \notin SpaceSet /\ \A j \in (i + 1)..Len(s) : s[j] \in SpaceSet
       IN  SubSeq(s, lo, hi)

\* s.endswith(suffix)
EndsWith(s, suffix) ==
  /\ Len(s) >= Len(suffix)
  /\ SubSeq(s, Len(s) - Len(suffix) + 1, Len(s)) = suffix

\* s.startswith(prefix)
StartsWith(s, prefix) ==
  /\ Len(s) >= Len(prefix)
  /\ SubSeq(s, 1, Len(prefix)) = prefix

\* a case-insensitive literal at the start of s (re.I)
StartsWithIgnoreCase(s, prefix) == StartsWith(Lower(s), Lower(prefix))

\* str.split(): the maximal runs of non-whitespace characters, in order
Split(s) ==
  LET starts == {i \in 1..Len(s) :
                   s[i] \notin SpaceSet /\ (i = 1 \/ s[i - 1] \in SpaceSet)}
      ends == {i \in 1..Len(s) :
                 s[i] \notin SpaceSet /\ (i = Len(s) \/ s[i + 1] \in SpaceSet)}
  IN  [k \in 1..Cardinality(starts) |->
         SubSeq(s,
                CHOOSE i \in starts : Cardinality({j \in starts : j <= i}) = k,
                CHOOSE i \in ends : Cardinality({j \in ends : j <= i}) = k)]

\* ' '.join(words)
RECURSIVE Join(_)
Join(ws) ==
  IF ws = <<>> THEN <<>>
  ELSE IF Len(ws) = 1 THEN ws[1]
  ELSE ws[1] \o <<" ">> \o Join(Tail(ws))

\* str.isupper(): some cased character, and no lowercase one
IsUpper(s) ==
  /\ \E i \in 1..Len(s) : s[i] \in UpperSet
  /\ \A i \in 1..Len(s) : s[i] \notin LowerSet

\* str.istitle(): an uppercase letter only after an uncased character, a
\* lowercase letter only after a cased one, and some cased character
IsTitle(s) ==
  /\ \E i \in 1..Len(s) : s[i] \in UpperSet \cup LowerSet
  /\ \A i \in 1..Len(s) :
       LET prevCased == i > 1 /\ s[i - 1] \in UpperSet \cup LowerSet
       IN  /\ s[i] \in UpperSet => ~prevCased
           /\ s[i] \in LowerSet => prevCased

\* the position after the longest run of characters of cls that starts at i
\* (a greedy cls* of a regular expression)
SkipRun(s, i, cls) ==
  CHOOSE j \in i..(Len(s) + 1) :
    /\ j = Len(s) + 1 \/ s[j] \notin cls
    /\ \A k \in i..(j - 1) : s[k] \in cls

\* the character at position i is in cls
At(s, i, cls) == i <= Len(s) /\ s[i] \in cls

\* the position after an optional "." at position i  (\.?)
SkipDot(s, i) == IF At(s, i, {"."}) THEN i + 1 ELSE i

\* Lexicographic "less than" on integer tuples of equal length (Python's
\* tuple comparison of sort keys)
RECURSIVE LexLess(_, _)
LexLess(a, b) ==
  IF a = <<>> \/ b = <<>> THEN FALSE
  ELSE IF a[1] # b[1] THEN a[1] < b[1]
  ELSE LexLess(Tail(a), Tail(b))

\* list.sort(key=...): a stable ascending sort.  The sort works on the pairs
\* <<key, item>>; an item is inserted after every item whose key is not
\* greater than its own.
RECURSIVE InsertByKey(_, _)
InsertByKey(sorted, pair) ==
  IF sorted = <<>> THEN <<pair>>
  ELSE IF LexLess(pair[1], sorted[Len(sorted)][1])
         THEN Append(InsertByKey(SubSeq(sorted, 1, Len(sorted) - 1), pair),
                     sorted[Len(sorted)])
         ELSE Append(sorted, pair)

RECURSIVE SortPrefix(_, _)
SortPrefix(pairs, n) ==
  IF n = 0 THEN <<>>
  ELSE InsertByKey(SortPrefix(pairs, n - 1), pairs[n])

\* the items of the pairs <<key, item>>, in the stable order of their keys
SortedByKey(pairs) ==
  LET sorted == SortPrefix(pairs, Len(pairs))
  IN  [i \in 1..Len(sorted) |-> sorted[i][2]]

SeqToSet(seq) == {seq[i] : i \in 1..Len(seq)}

----------------------------------------------------------------------------
(* Round1A: calculate_heading_score                                        *)

W_Chapter == <<"C","h","a","p","t","e","r">>
W_Section == <<"S","e","c","t","i","o","n">>
W_Part == <<"P","a","r","t">>
W_Appendix == <<"A","p","p","e","n","d","i","x">>
W_Abstract == <<"A","b","s","t","r","a","c","t">>
W_Introduction == <<"I","n","t","r","o","d","u","c","t","i","o","n">>
W_Conclusion == <<"C","o","n","c","l","u","s","i","o","n">>
W_References == <<"R","e","f","e","r","e","n","c","e","s">>

\* re.match(r'^\d+\.\d+\.?\s+', text)
MatchMultiLevelNumber(text) ==
  LET a == SkipRun(text, 1, DigitSet)
      b == SkipRun(text, a + 1, DigitSet)
  IN  /\ a > 1
      /\ At(text, a, {"."})
      /\ b > a + 1
      /\ At(text, SkipDot(text, b), SpaceSet)

\* re.match(r'^\d+\.?\s+', text)
MatchSingleNumber(text) ==
  LET a == SkipRun(text, 1, DigitSet)
  IN  a > 1 /\ At(text, SkipDot(text, a), SpaceSet)

\* re.match(r'^[A-Z]\.?\s+', text)
MatchLetter(text) ==
  At(text, 1, UpperSet) /\ At(text, SkipDot(text, 2), SpaceSet)

\* re.match(r'^(w1|w2|..)\s+\d+', text, re.I) for the words ws
MatchWordNumber(text, ws) ==
  \E w \in ws :
    /\ StartsWithIgnoreCase(text, w)
    /\ At(text, Len(w) + 1, SpaceSet)
    /\ At(text, SkipRun(text, Len(w) + 1, SpaceSet), DigitSet)

\* re.match(r'^(Appendix|Abstract|Introduction|Conclusion)', text, re.I)
MatchFrontMatter(text) ==
  \E w \in {W_Appendix, W_Abstract, W_Introduction, W_Conclusion} :
    StartsWithIgnoreCase(text, w)

\* "Font size factor": size_ratio = max_size / dominant_size against 2.0, 1.8,
\* 1.5, 1.3, 1.2, 1.1, compared in tenths
SizeFactor(max_size, dominant) ==
  IF 10 * max_size >= 20 * dominant THEN 50
  ELSE IF 10 * max_size >= 18 * dominant THEN 45
  ELSE IF 10 * max_size >= 15 * dominant THEN 40
  ELSE IF 10 * max_size >= 13 * dominant THEN 30
  ELSE IF 10 * max_size >= 12 * dominant THEN 20
  ELSE IF 10 * max_size >= 11 * dominant THEN 10
  ELSE 0

\* "Pattern factors": the first pattern that matches
PatternFactor(text) ==
  IF MatchMultiLevelNumber(text) THEN 30
  ELSE IF MatchSingleNumber(text) THEN 25
  ELSE IF MatchLetter(text) THEN 20
  ELSE IF MatchWordNumber(text, {W_Chapter, W_Section, W_Part}) THEN 35
  ELSE IF MatchFrontMatter(text) THEN 30
  ELSE 0

\* "Case patterns"
CaseFactor(text, word_count) ==
  IF IsUpper(text) /\ 2 <= word_count /\ word_count <= 8 THEN 20
  ELSE IF IsTitle(text) /\ 2 <= word_count /\ word_count <= 12 THEN 15
  ELSE 0

\* "Length considerations"
LengthFactor(word_count) ==
  IF 1 <= word_count /\ word_count <= 15 THEN 10
  ELSE IF word_count > 25 THEN -30
  ELSE 0

\* "Punctuation"
PunctuationFactor(text, word_count) ==
  IF EndsWith(text, <<":">>) THEN 15
  ELSE IF EndsWith(text, <<".">>) /\ word_count > 10 THEN -20
  ELSE 0

Min(a, b) == IF a <= b THEN a ELSE b
Max(a, b) == IF a >= b THEN a ELSE b

\* calculate_heading_score(elem, doc_stats), in hundredths
calculate_heading_score(e, dominant) ==
  LET text == Strip(e.text)
      word_count == Len(Split(text))
      score == SizeFactor(e.max_size, dominant)
               + (IF e.is_bold THEN 25 ELSE 0)
               + PatternFactor(text)
               + CaseFactor(text, word_count)
               + LengthFactor(word_count)
               + PunctuationFactor(text, word_count)
  IN  Min(score, 100)

(* Inputs of calculate_heading_score: a line is some starting words, then  *)
(* a number of filler words, then an optional final ":" or ".".            *)

\* how a line of text starts: the words before the filler words
HeadingHeads ==
  { << <<"1",".","1">>, <<"S","c","o","p","e">> >>,
    << <<"2",".","3",".">>, <<"s","c","o","p","e">> >>,
    << <<"1",".">>, <<"I","n","t","r","o","d","u","c","t","i","o","n">> >>,
    << <<"1">>, <<"S","c","o","p","e">> >>,
    << <<"1","2">>, <<"S","C","O","P","E">> >>,
    << <<"1",".","1","S","c","o","p","e">> >>,
    << <<"1",".","S","c","o","p","e">> >>,
    << <<"A",".">>, <<"S","c","o","p","e">> >>,
    << <<"A">>, <<"S","C","O","P","E">> >>,
    << <<"a",".">>, <<"S","c","o","p","e">> >>,
    << <<"C","h","a","p","t","e","r">>, <<"3">> >>,
    << <<"C","H","A","P","T","E","R">>, <<"3">> >>,
    << <<"P","a","r","t">>, <<"3">> >>,
    << <<"s","e","c","t","i","o","n">>, <<"3">> >>,
    << <<"C","h","a","p","t","e","r">>, <<"O","n","e">> >>,
    << <<"A","b","s","t","r","a","c","t">> >>,
    << <<"I","N","T","R","O","D","U","C","T","I","O","N">> >>,
    << <<"C","o","n","c","l","u","s","i","o","n">>, <<"O","f">>, <<"S","c","o","p","e">> >>,
    << <<"A","p","p","e","n","d","i","x">>, <<"A">> >>,
    << <<"S","c","o","p","e">> >>,
    << <<"s","c","o","p","e">> >>,
    << <<"S","C","O","P","E">> >>,
    << <<"S","C","O","P","E">>, <<"N","O","T","E">> >>,
    << <<"S","c","o","p","e">>, <<"N","o","t","e">> >>,
    << <<"i","S","c","o","p","e">>, <<"n","o","t","e">> >> }

FillerWords == { <<"t","e","x","t">>, <<"T","e","x","t">>, <<"T","E","X","T">> }
FillerCounts == {0, 1, 7, 10, 14, 24, 25}
LineEnds == { <<>>, <<":">>, <<".">> }
ElementSizes == {9, 10, 11, 12, 13, 15, 18, 20}
DominantSizes == {10}

Repeat(w, n) == [i \in 1..n |-> w]

HeadingTexts ==
  { Join(h \o Repeat(f, n)) \o e :
      h \in HeadingHeads, f \in FillerWords, n \in FillerCounts, e \in LineEnds }

Element(t, size, bold) == [text |-> t, max_size |-> size, is_bold |-> bold]

NoElement == Element(<<>>, 12, FALSE)

----------------------------------------------------------------------------
(* Round1A: analyze_document_statistics                                    *)

\* Counter(font_sizes).most_common(1)[0][0]: the most frequent size, the one
\* met first among equally frequent ones
MostCommon(font_sizes) ==
  LET count(v) == Cardinality({i \in 1..Len(font_sizes) : font_sizes[i] = v})
      first(v) == CHOOSE i \in 1..Len(font_sizes) :
                    /\ font_sizes[i] = v
                    /\ \A j \in 1..(i - 1) : font_sizes[j] # v
  IN  CHOOSE v \in SeqToSet(font_sizes) :
        \A w \in SeqToSet(font_sizes) :
          \/ count(v) > count(w)
          \/ count(v) = count(w) /\ first(v) <= first(w)

SetMax(S) == CHOOSE m \in S : \A x \in S : x <= m
SetMin(S) == CHOOSE m \in S : \A x \in S : m <= x

\* sorted(S): ascending
RECURSIVE SortedAscending(_)
SortedAscending(S) ==
  IF S = {} THEN <<>>
  ELSE <<SetMin(S)>> \o SortedAscending(S \ {SetMin(S)})

\* sorted(S, reverse=True): descending
RECURSIVE SortedDescending(_)
SortedDescending(S) ==
  IF S = {} THEN <<>>
  ELSE <<SetMax(S)>> \o SortedDescending(S \ {SetMax(S)})

\* a slip in unique_sizes: reverse=True forgotten
UniqueSizesAscending(font_sizes) == SortedAscending(SeqToSet(font_sizes))

\* unique_sizes = sorted(set(font_sizes), reverse=True)
UniqueSizes(font_sizes) == SortedDescending(SeqToSet(font_sizes))

Thresholds(a, b, c) == [h1 |-> a, h2 |-> b, h3 |-> c]

\* analyze_document_statistics(text_elements); the thresholds are in tenths
\* of a point (18 is 180)
analyze_document_statistics(elements) ==
  IF elements = <<>>
    THEN [dominant_size |-> 12, size_thresholds |-> Thresholds(180, 150, 130)]
    ELSE
      LET font_sizes == [i \in 1..Len(elements) |-> elements[i].max_size]
          dominant == MostCommon(font_sizes)
          unique_sizes == UniqueSizes(font_sizes)
      IN  [dominant_size |-> dominant,
           size_thresholds |->
             IF Len(unique_sizes) >= 3
               THEN Thresholds(10 * unique_sizes[1],
                               IF Len(unique_sizes) > 1
                                 THEN 10 * unique_sizes[2] ELSE 13 * dominant,
                               IF Len(unique_sizes) > 2
                                 THEN 10 * unique_sizes[3] ELSE 11 * dominant)
               ELSE Thresholds(Max(15 * dominant, 9 * SetMax(SeqToSet(font_sizes))),
                               13 * dominant,
                               11 * dominant)]

MaxElements == 4      \* the longest element list analysed
FontSizes == {8, 10, 12, 14, 20}
W_Line == <<"l","i","n","e">>

NoStats == [dominant_size |-> 0, size_thresholds |-> Thresholds(0, 0, 0)]

----------------------------------------------------------------------------
(* Round1A: post_process_outline                                           *)

MaxPerPage == 5        \* max_per_page
GlobalLimit == 20      \* the global limit of the outline
MinConfidence == 70    \* 0.7, the high-precision threshold

\* key = (item["text"].lower().strip(), item["page"])
DedupKey(item) == <<Strip(Lower(item.text)), item.page>>

\* a slip in the "Remove duplicates" loop: the test "key not in seen" inverted,
\* so that only repeated keys are kept
RECURSIVE KeepOnlyRepeats(_, _, _)
KeepOnlyRepeats(items, i, seen) ==
  IF i > Len(items) THEN <<>>
  ELSE IF DedupKey(items[i]) \in seen
         THEN <<items[i]>> \o KeepOnlyRepeats(items, i + 1, seen)
         ELSE KeepOnlyRepeats(items, i + 1, seen \cup {DedupKey(items[i])})

\* a slip in the "Remove duplicates" loop: the last item of each key is kept
RECURSIVE KeepLastOccurrence(_, _, _)
KeepLastOccurrence(items, i, seen) ==
  IF i > Len(items) THEN <<>>
  ELSE IF \E j \in (i + 1)..Len(items) : DedupKey(items[j]) = DedupKey(items[i])
         THEN KeepLastOccurrence(items, i + 1, seen)
         ELSE <<items[i]>> \o KeepLastOccurrence(items, i + 1, seen)

\* the "Remove duplicates" loop: the first item of each key is kept
RECURSIVE RemoveDuplicates(_, _, _)
RemoveDuplicates(items, i, seen) ==
  IF i > Len(items) THEN <<>>
  ELSE IF DedupKey(items[i]) \notin seen
         THEN <<items[i]>> \o
              RemoveDuplicates(items, i + 1, seen \cup {DedupKey(items[i])})
         ELSE RemoveDuplicates(items, i + 1, seen)

\* unique_outline.sort(key=lambda x: (x["page"], -x["confidence"]))
SortByPageConfidence(items) ==
  SortedByKey([i \in 1..Len(items) |->
                 << <<items[i].page, -items[i].confidence>>, items[i] >>])

\* filtered_outline.sort(key=lambda x: x["confidence"], reverse=True): the
\* reversed sort keeps the order of entries of equal confidence
SortByConfidenceDescending(items) ==
  SortedByKey([i \in 1..Len(items) |-> << <<-items[i].confidence>>, items[i] >>])

\* filtered_outline.sort(key=lambda x: x["page"])
SortByPage(items) ==
  SortedByKey([i \in 1..Len(items) |-> << <<items[i].page>>, items[i] >>])

\* a slip in the per-page test: "<=" for "<"
KeepItemOffByOne(count, item) ==
  count <= MaxPerPage /\ item.confidence >= MinConfidence

\* the test of the "Apply limits" loop for one item
KeepItem(count, item) ==
  count < MaxPerPage /\ item.confidence >= MinConfidence

\* the "Apply limits for precision" loop; page_counts is a defaultdict(int)
RECURSIVE ApplyLimits(_, _, _)
ApplyLimits(items, i, page_counts) ==
  IF i > Len(items) THEN <<>>
  ELSE LET item == items[i]
           count == IF item.page \in DOMAIN page_counts
                      THEN page_counts[item.page] ELSE 0
       IN  IF KeepItem(count, item)
             THEN <<item>> \o
                  ApplyLimits(items, i + 1,
                              (item.page :> count + 1) @@ page_counts)
             ELSE ApplyLimits(items, i + 1, page_counts)

\* a slip in the "Global limit" block: the sort by confidence left out
TruncateInPageOrder(items) ==
  IF Len(items) > GlobalLimit
    THEN SortByPage(SubSeq(items, 1, GlobalLimit))
    ELSE items

\* the "Global limit" block
ApplyGlobalLimit(items) ==
  IF Len(items) > GlobalLimit
    THEN SortByPage(SubSeq(SortByConfidenceDescending(items), 1, GlobalLimit))
    ELSE items

\* filtered_outline before the global limit
PerPageFiltered(items) ==
  ApplyLimits(SortByPageConfidence(RemoveDuplicates(items, 1, {})), 1, <<>>)

post_process_outline(items) ==
  IF items = <<>> THEN items
  ELSE ApplyGlobalLimit(PerPageFiltered(items))

----------------------------------------------------------------------------
(* Round1B: SectionRanker.rank_and_select                                  *)
(* A relevance score is an exact fraction <<numerator, denominator>>.      *)

MaxSections == 10      \* max_sections
MaxPerDoc == 3         \* max_per_doc
MinScoreNum == 3       \* min_score = 0.3 = MinScoreNum / MinScoreDen
MinScoreDen == 10

\* a < b for two scores
ScoreLess(a, b) == a[1] * b[2] < b[1] * a[2]

\* a slip in the sort: reverse=True forgotten (ascending, stable)
RECURSIVE InsertByScoreAscending(_, _)
InsertByScoreAscending(sorted, section) ==
  IF sorted = <<>> THEN <<section>>
  ELSE IF ScoreLess(section.relevance_score, sorted[Len(sorted)].relevance_score)
         THEN Append(InsertByScoreAscending(SubSeq(sorted, 1, Len(sorted) - 1),
                                            section),
                     sorted[Len(sorted)])
         ELSE Append(sorted, section)

\* a slip in the sort: a section goes before the sections of equal score
RECURSIVE InsertBeforeEquals(_, _)
InsertBeforeEquals(sorted, section) ==
  IF sorted = <<>> THEN <<section>>
  ELSE IF ScoreLess(section.relevance_score, sorted[Len(sorted)].relevance_score)
         THEN Append(sorted, section)
         ELSE Append(InsertBeforeEquals(SubSeq(sorted, 1, Len(sorted) - 1),
                                        section),
                     sorted[Len(sorted)])

\* sorted(..., key=relevance_score, reverse=True): a section goes after every
\* section whose score is not smaller than its own (the sort is stable)
RECURSIVE InsertByScore(_, _)
InsertByScore(sorted, section) ==
  IF sorted = <<>> THEN <<section>>
  ELSE IF ScoreLess(sorted[Len(sorted)].relevance_score, section.relevance_score)
         THEN Append(InsertByScore(SubSeq(sorted, 1, Len(sorted) - 1), section),
                     sorted[Len(sorted)])
         ELSE Append(sorted, section)

\* ranked_sections = sorted(scored_sections, key=..., reverse=True)
RECURSIVE RankedSections(_, _)
RankedSections(sections, n) ==
  IF n = 0 THEN <<>>
  ELSE InsertByScore(RankedSections(sections, n - 1), sections[n])

\* a slip in the per-document test: ">" for ">="
DocumentFullOffByOne(count) == count > MaxPerDoc

\* doc_counts[doc_name] >= max_per_doc
DocumentFull(count) == count >= MaxPerDoc

\* section["relevance_score"] < min_score
BelowMinScore(section) ==
  ScoreLess(section.relevance_score, <<MinScoreNum, MinScoreDen>>)

\* the "Select with diversity" loop from position i on; doc_counts is a
\* defaultdict(int)
RECURSIVE SelectWithDiversity(_, _, _, _)
SelectWithDiversity(ranked, i, selected, doc_counts) ==
  IF i > Len(ranked) THEN selected
  ELSE IF Len(selected) >= MaxSections THEN selected
  ELSE LET section == ranked[i]
           count == IF section.document \in DOMAIN doc_counts
                      THEN doc_counts[section.document] ELSE 0
       IN  IF BelowMinScore(section)
             THEN SelectWithDiversity(ranked, i + 1, selected, doc_counts)
           ELSE IF DocumentFull(count)
             THEN SelectWithDiversity(ranked, i + 1, selected, doc_counts)
           ELSE SelectWithDiversity(ranked, i + 1, Append(selected, section),
                                    (section.document :> count + 1) @@ doc_counts)

\* the "Add ranking" loop: section["rank"] = i + 1
AddRanking(selected) ==
  [i \in 1..Len(selected) |-> [rank |-> i] @@ selected[i]]

\* rank_and_select(scored_sections)
rank_and_select(sections) ==
  IF sections = <<>> THEN <<>>
  ELSE AddRanking(SelectWithDiversity(RankedSections(sections, Len(sections)),
                                      1, <<>>, <<>>))

----------------------------------------------------------------------------
(* Round1B: PersonaAnalyzer                                                *)

\* term in text
Contains(text, term) ==
  \E i \in 1..(Len(text) - Len(term) + 1) :
    \A j \in 1..Len(term) : text[i + j - 1] = term[j]

\* any(term in text for term in terms)
ContainsAny(text, terms) == \E term \in terms : Contains(text, term)

AcademicTerms ==
  {<<"r","e","s","e","a","r","c","h","e","r">>, <<"p","h","d">>, <<"s","c","i","e","n","t","i","s","t">>, <<"a","c","a","d","e","m","i","c">>}
BusinessTerms ==
  {<<"a","n","a","l","y","s","t">>, <<"i","n","v","e","s","t","m","e","n","t">>, <<"f","i","n","a","n","c","i","a","l">>, <<"b","u","s","i","n","e","s","s">>}
StudentTerms ==
  {<<"s","t","u","d","e","n","t">>, <<"u","n","d","e","r","g","r","a","d","u","a","t","e">>, <<"g","r","a","d","u","a","t","e">>}
TechnicalTerms ==
  {<<"e","n","g","i","n","e","e","r">>, <<"d","e","v","e","l","o","p","e","r">>, <<"t","e","c","h","n","i","c","a","l">>}

T_researcher == <<"r","e","s","e","a","r","c","h","e","r">>
T_phd == <<"p","h","d">>
T_student == <<"s","t","u","d","e","n","t">>
T_analyst == <<"a","n","a","l","y","s","t">>

\* a slip in the order of the tests: the business group first
ClassifyBusinessFirst(p) ==
  LET persona_lower == Lower(p)
  IN  IF ContainsAny(persona_lower, BusinessTerms) THEN "business_analyst"
      ELSE IF ContainsAny(persona_lower, AcademicTerms) THEN "academic_researcher"
      ELSE IF ContainsAny(persona_lower, StudentTerms) THEN "student"
      ELSE IF ContainsAny(persona_lower, TechnicalTerms)
        THEN "technical_professional"
      ELSE "general_professional"

\* classify_persona_type(persona)
classify_persona_type(p) ==
  LET persona_lower == Lower(p)
  IN  IF ContainsAny(persona_lower, AcademicTerms) THEN "academic_researcher"
      ELSE IF ContainsAny(persona_lower, BusinessTerms) THEN "business_analyst"
      ELSE IF ContainsAny(persona_lower, StudentTerms) THEN "student"
      ELSE IF ContainsAny(persona_lower, TechnicalTerms)
        THEN "technical_professional"
      ELSE "general_professional"

\* the preferences infer_content_preferences starts from, in hundredths
BasePreferences ==
  [technical_depth |-> 50, quantitative_focus |-> 50,
   summary_preference |-> 50, detail_preference |-> 50]

\* infer_content_preferences(persona, job); the job text is not looked at
infer_content_preferences(p) ==
  IF Contains(Lower(p), T_researcher) \/ Contains(Lower(p), T_phd)
    THEN [BasePreferences EXCEPT !.technical_depth = 90,
                                 !.detail_preference = 80]
  ELSE IF Contains(Lower(p), T_student)
    THEN [BasePreferences EXCEPT !.summary_preference = 80,
                                 !.technical_depth = 40]
  ELSE IF Contains(Lower(p), T_analyst)
    THEN [BasePreferences EXCEPT !.quantitative_focus = 90]
  ELSE BasePreferences

\* the weights calculate_relevance_weights starts from, in hundredths
BaseWeights ==
  [keyword_match |-> 30, section_type |-> 20, content_depth |-> 20,
   quantitative_content |-> 15, position_importance |-> 15]

\* calculate_relevance_weights(persona_type)
calculate_relevance_weights(persona_type) ==
  IF persona_type = "academic_researcher"
    THEN [BaseWeights EXCEPT !.content_depth = 30, !.keyword_match = 25]
  ELSE IF persona_type = "business_analyst"
    THEN [BaseWeights EXCEPT !.quantitative_content = 35, !.keyword_match = 30]
  ELSE BaseWeights

\* the characters of \w
WordSet == UpperSet \cup LowerSet \cup DigitSet \cup {"_"}

\* \b at position i of s: between s[i - 1] and s[i], one is a character of \w
\* and the other is not, the ends of s counting as not
WordBoundary(s, i) ==
  (i > 1 /\ i - 1 <= Len(s) /\ s[i - 1] \in WordSet)
    # (i >= 1 /\ i <= Len(s) /\ s[i] \in WordSet)

\* re.findall(r'\b[a-zA-Z]{4,}\b', s): the runs of 4 letters or more between
\* two word boundaries
LetterWords(s) ==
  {SubSeq(s, i, j) : <<i, j>> \in
     {ij \in (1..Len(s)) \X (1..Len(s)) :
        /\ ij[2] >= ij[1] + 3
        /\ WordBoundary(s, ij[1]) /\ WordBoundary(s, ij[2] + 1)
        /\ \A k \in ij[1]..ij[2] : s[k] \in UpperSet \cup LowerSet}}

CommonWords == {<<"t","h","e">>, <<"a","n","d">>, <<"f","o","r">>, <<"a","r","e">>, <<"b","u","t">>, <<"n","o","t">>, <<"y","o","u">>, <<"a","l","l">>, <<"c","a","n">>, <<"h","a","d">>}

\* extract_expertise_areas(persona): list(set(expertise_keywords)), a set
extract_expertise_areas(p) ==
  (IF ContainsAny(Lower(p), {<<"c","o","m","p","u","t","a","t","i","o","n","a","l"," ","b","i","o","l","o","g","y">>,
       <<"d","r","u","g"," ","d","i","s","c","o","v","e","r","y">>}) THEN
     {<<"c","o","m","p","u","t","a","t","i","o","n","a","l">>,
      <<"b","i","o","l","o","g","y">>,
      <<"d","r","u","g">>,
      <<"d","i","s","c","o","v","e","r","y">>,
      <<"m","e","t","h","o","d","o","l","o","g","y">>,
      <<"d","a","t","a","s","e","t","s">>}
   ELSE {})
  \cup
  (IF ContainsAny(Lower(p), {<<"i","n","v","e","s","t","m","e","n","t">>,
       <<"f","i","n","a","n","c","i","a","l">>,
       <<"a","n","a","l","y","s","t">>}) THEN
     {<<"f","i","n","a","n","c","i","a","l">>,
      <<"i","n","v","e","s","t","m","e","n","t">>,
      <<"r","e","v","e","n","u","e">>,
      <<"m","a","r","k","e","t">>,
      <<"a","n","a","l","y","s","i","s">>}
   ELSE {})
  \cup
  (IF ContainsAny(Lower(p), {<<"c","h","e","m","i","s","t","r","y">>,
       <<"o","r","g","a","n","i","c">>,
       <<"s","t","u","d","e","n","t">>}) THEN
     {<<"c","h","e","m","i","s","t","r","y">>,
      <<"o","r","g","a","n","i","c">>,
      <<"r","e","a","c","t","i","o","n">>,
      <<"k","i","n","e","t","i","c","s">>,
      <<"m","e","c","h","a","n","i","s","m","s">>}
   ELSE {})
  \cup (LetterWords(Lower(p)) \ CommonWords)

\* one match of r'stem[last]?\s+(\w+)' with re.I at position i of s, for the
\* pattern that is stem followed by an optional character last: <<>> when
\* there is no match, else <<the group, the position after the match>>
ActionMatchAt(s, i, stem, last) ==
  LET a == i + Len(stem)
      b == IF At(s, a, last) THEN a + 1 ELSE a
      c == SkipRun(s, b, SpaceSet)
      d == SkipRun(s, c, WordSet)
  IN  IF /\ a - 1 <= Len(s)
         /\ Lower(SubSeq(s, i, a - 1)) = stem
         /\ c > b
         /\ d > c
        THEN <<SubSeq(s, c, d - 1), d>>
        ELSE <<>>

\* re.findall(pattern, s, re.I) from position i on: the groups of the matches,
\* which do not overlap
RECURSIVE ActionWords(_, _, _, _)
ActionWords(s, i, stem, last) ==
  IF i > Len(s) THEN {}
  ELSE IF ActionMatchAt(s, i, stem, last) # <<>>
    THEN {ActionMatchAt(s, i, stem, last)[1]}
           \cup ActionWords(s, ActionMatchAt(s, i, stem, last)[2], stem, last)
  ELSE ActionWords(s, i + 1, stem, last)

\* analyze_job_priorities(job_description): list(set(priorities)), a set
analyze_job_priorities(job) ==
  (IF Contains(Lower(job), 
       <<"l","i","t","e","r","a","t","u","r","e"," ","r","e","v","i","e","w">>) THEN
     {<<"m","e","t","h","o","d","o","l","o","g","y">>,
      <<"d","a","t","a","s","e","t","s">>,
      <<"p","e","r","f","o","r","m","a","n","c","e">>,
      <<"b","e","n","c","h","m","a","r","k","s">>}
   ELSE {})
  \cup
  (IF Contains(Lower(job), 
       <<"r","e","v","e","n","u","e"," ","t","r","e","n","d","s">>) THEN
     {<<"r","e","v","e","n","u","e">>,
      <<"t","r","e","n","d","s">>,
      <<"f","i","n","a","n","c","i","a","l">>,
      <<"a","n","a","l","y","s","i","s">>}
   ELSE {})
  \cup
  (IF Contains(Lower(job), 
       <<"e","x","a","m"," ","p","r","e","p","a","r","a","t","i","o","n">>) THEN
     {<<"c","o","n","c","e","p","t","s">>,
      <<"m","e","c","h","a","n","i","s","m","s">>,
      <<"k","e","y">>,
      <<"i","m","p","o","r","t","a","n","t">>}
   ELSE {})
  \cup ActionWords(job, 1, <<"a","n","a","l","y","z">>, {"e", "E"})
  \cup ActionWords(job, 1, <<"i","d","e","n","t","i","f","y">>, {})
  \cup ActionWords(job, 1, <<"p","r","e","p","a","r","e">>, {})

\* create_persona_profile(persona, job_to_be_done)
create_persona_profile(p, job) ==
  [persona_type |-> classify_persona_type(p),
   expertise_areas |-> extract_expertise_areas(p),
   job_priorities |-> analyze_job_priorities(job),
   content_preferences |-> infer_content_preferences(p),
   relevance_weights |-> calculate_relevance_weights(classify_persona_type(p))]

NoProfile ==
  [persona_type |-> "", expertise_areas |-> {}, job_priorities |-> {},
   content_preferences |-> BasePreferences, relevance_weights |-> BaseWeights]

----------------------------------------------------------------------------
(* Round1A: process_all_pdfs                                               *)

Ext_pdf == <<".","p","d","f">>
Ext_json == <<".","j","s","o","n">>

\* str.replace(old, new) from position i on: the occurrences of old, left to
\* right and without overlap
RECURSIVE ReplaceFrom(_, _, _, _)
ReplaceFrom(s, i, old, new) ==
  IF i > Len(s) THEN <<>>
  ELSE IF i + Len(old) - 1 <= Len(s) /\ SubSeq(s, i, i + Len(old) - 1) = old
    THEN new \o ReplaceFrom(s, i + Len(old), old, new)
  ELSE <<s[i]>> \o ReplaceFrom(s, i + 1, old, new)

\* s.replace(old, new), old not empty
Replace(s, old, new) == ReplaceFrom(s, 1, old, new)

\* [f for f in os.listdir(input_dir) if f.endswith('.pdf')]
PdfFilesOf(listing) == SelectSeq(listing, LAMBDA f : EndsWith(f, Ext_pdf))

\* output_file = pdf_file.replace('.pdf', '.json')
OutputFile(pdf_file) == Replace(pdf_file, Ext_pdf, Ext_json)

\* fallback = {"title": "Document", "outline": []}
FallbackResult == [title |-> <<"D","o","c","u","m","e","n","t">>, outline |-> <<>>]

\* save_json_result(result, output_path): the file is created or overwritten
SaveJsonResult(dir, output_path, data) ==
  [f \in DOMAIN dir \cup {output_path} |->
     IF f = output_path THEN data ELSE dir[f]]

----------------------------------------------------------------------------
(* Round1B: PersonaDrivenAnalyzer                                          *)

RefinedTextLimit == 500   \* len(section["content"]) > 500
SubSectionLimit == 5      \* selected_sections[:5]

\* datetime.now().isoformat(): a value of the environment
Timestamp == "timestamp"

\* load_configuration when a .json file is found: json.load of that file
ConfigFromFile(document_list, persona_text, job) ==
  [documents |-> document_list, persona |-> persona_text, job_to_be_done |-> job]

\* load_configuration when no .json file is found: the default configuration
DefaultConfig(listing) ==
  [documents |-> PdfFilesOf(listing),
   persona |-> <<"R","e","s","e","a","r","c","h"," ","A","n","a","l","y","s","t">>,
   job_to_be_done |-> 
     <<"A","n","a","l","y","z","e"," ","a","n","d"," ","s","u","m","m","a","r","i","z","e"," ","k","e","y"," ","i","n","f","o","r","m","a","t","i","o","n">>]

\* a slip in extract_documents: the name check left out
ExtractedWithoutNameCheck(docs, doc_name, status) ==
  IF status = "readable" THEN Append(docs, [name |-> doc_name]) ELSE docs

\* one iteration of the loop of extract_documents: the document is appended
\* when its file exists, its name ends with ".pdf" and extract_pdf_content
\* does not raise; the content itself is not represented
ExtractedDocuments(docs, doc_name, status) ==
  IF status # "missing" /\ EndsWith(doc_name, Ext_pdf)
    THEN IF status = "readable" THEN Append(docs, [name |-> doc_name]) ELSE docs
    ELSE docs

\* a slip in the length test: ">=" for ">"
RefinedTextOffByOne(content) ==
  IF Len(content) >= RefinedTextLimit
    THEN SubSeq(content, 1, RefinedTextLimit) \o <<".", ".", ".">>
    ELSE content

\* section["content"][:500] + "..." if len(section["content"]) > 500 else
\* section["content"]
RefinedText(content) ==
  IF Len(content) > RefinedTextLimit
    THEN SubSeq(content, 1, RefinedTextLimit) \o <<".", ".", ".">>
    ELSE content

\* generate_output(config, selected_sections)
generate_output(cfg, selected) ==
  [metadata |->
     [input_documents |-> cfg.documents, persona |-> cfg.persona,
      job_to_be_done |-> cfg.job_to_be_done, processing_timestamp |-> Timestamp],
   extracted_sections |->
     [i \in 1..Len(selected) |->
        [document |-> selected[i].document, page_number |-> selected[i].page,
         section_title |-> selected[i].title,
         importance_rank |-> selected[i].rank]],
   sub_section_analysis |->
     [i \in 1..Min(SubSectionLimit, Len(selected)) |->
        [document |-> selected[i].document,
         refined_text |-> RefinedText(selected[i].content),
         page_number |-> selected[i].page]]]

\* create_fallback_output()
create_fallback_output ==
  [metadata |->
     [input_documents |-> <<>>, persona |-> <<"G","e","n","e","r","a","l"," ","U","s","e","r">>,
      job_to_be_done |-> 
        <<"D","o","c","u","m","e","n","t"," ","A","n","a","l","y","s","i","s">>, processing_timestamp |-> Timestamp],
   extracted_sections |-> <<>>,
   sub_section_analysis |-> <<>>]

NoConfig == [documents |-> <<>>, persona |-> <<>>, job_to_be_done |-> <<>>]

----------------------------------------------------------------------------
(* Round1B: DocumentProcessor                                              *)

LetterSet == UpperSet \cup LowerSet

\* all_elements of analyze_document_structure: the elements of all pages
RECURSIVE AllElements(_)
AllElements(pages) ==
  IF pages = <<>> THEN <<>>
  ELSE pages[1].elements \o AllElements(Tail(pages))

\* analyze_document_structure(pages_content); heading_threshold, which is
\* primary_size * 1.2, is kept in tenths
analyze_document_structure(pages) ==
  IF AllElements(pages) = <<>>
    THEN [primary_size |-> 12, heading_threshold |-> 140]
    ELSE LET sizes == [i \in 1..Len(AllElements(pages)) |->
                         AllElements(pages)[i].avg_size]
         IN  [primary_size |-> MostCommon(sizes),
              heading_threshold |-> MostCommon(sizes) * 12]

\* re.match(r'^\d+\.?\s+[A-Z]', text, re.I): with re.I the class [A-Z] takes
\* the letters of both cases
MatchNumberedStart(text) ==
  LET a == SkipRun(text, 1, DigitSet)
      b == SkipDot(text, a)
  IN  /\ a > 1
      /\ At(text, b, SpaceSet)
      /\ At(text, SkipRun(text, b, SpaceSet), LetterSet)

\* re.match(r'^[A-Z][A-Z\s]+$', text, re.I): with re.I a line of two or more
\* letters and spaces that starts with a letter, of either case
MatchCapsLine(text) ==
  /\ Len(text) >= 2
  /\ text[1] \in LetterSet
  /\ \A i \in 2..Len(text) : text[i] \in LetterSet \cup SpaceSet

\* re.match(r'^(Chapter|Section|Abstract|Introduction|Conclusion|Methodology)$',
\* text, re.I)
MatchKeywordLine(text) ==
  Lower(text) \in 
    {<<"c","h","a","p","t","e","r">>, <<"s","e","c","t","i","o","n">>,
     <<"a","b","s","t","r","a","c","t">>, <<"i","n","t","r","o","d","u","c","t","i","o","n">>,
     <<"c","o","n","c","l","u","s","i","o","n">>,
     <<"m","e","t","h","o","d","o","l","o","g","y">>}

\* is_section_heading(elem, doc_analysis)
is_section_heading(e, doc_analysis) ==
  LET text == Strip(e.text)
  IN  \/ 10 * e.avg_size >= doc_analysis.heading_threshold
      \/ e.is_bold /\ Len(Split(text)) <= 15
      \/ MatchNumberedStart(text)
      \/ MatchCapsLine(text)
      \/ MatchKeywordLine(text)

\* classify_section_type(text)
classify_section_type(text) ==
  LET text_lower == Lower(text)
  IN  IF ContainsAny(text_lower, {<<"a","b","s","t","r","a","c","t">>, <<"s","u","m","m","a","r","y">>}) THEN "abstract"
      ELSE IF ContainsAny(text_lower, 
        {<<"i","n","t","r","o","d","u","c","t","i","o","n">>, <<"b","a","c","k","g","r","o","u","n","d">>}) THEN "introduction"
      ELSE IF ContainsAny(text_lower, 
        {<<"m","e","t","h","o","d","o","l","o","g","y">>, <<"m","e","t","h","o","d","s">>}) THEN "methodology"
      ELSE IF ContainsAny(text_lower, {<<"r","e","s","u","l","t","s">>, <<"f","i","n","d","i","n","g","s">>}) THEN "results"
      ELSE IF ContainsAny(text_lower, 
        {<<"d","i","s","c","u","s","s","i","o","n">>, <<"a","n","a","l","y","s","i","s">>}) THEN "discussion"
      ELSE IF ContainsAny(text_lower, {<<"c","o","n","c","l","u","s","i","o","n">>}) THEN "conclusion"
      ELSE "general"

\* the section a heading opens
NewSection(doc_name, text, page_num) ==
  [title |-> text, content |-> <<>>, document |-> doc_name, page |-> page_num,
   section_type |-> classify_section_type(text)]

\* a slip in the loop body: the section a heading closes is appended whatever
\* its content
ScanElementKeepingEmpty(st, e, page_num, doc_name, doc_analysis) ==
  LET text == Strip(e.text)
  IN  IF text = <<>> THEN st
      ELSE IF is_section_heading(e, doc_analysis)
        THEN [sections |-> st.sections \o st.current,
              current |-> <<NewSection(doc_name, text, page_num)>>]
      ELSE IF st.current # <<>>
        THEN [st EXCEPT !.current[1].content = @ \o text \o <<" ">>]
      ELSE st

\* a slip in the loop body: current_section["content"] = text + " ", the line
\* replaces the content instead of being added to it
ScanElementOverwriting(st, e, page_num, doc_name, doc_analysis) ==
  LET text == Strip(e.text)
  IN  IF text = <<>> THEN st
      ELSE IF is_section_heading(e, doc_analysis)
        THEN [sections |->
                IF st.current # <<>> /\ Strip(st.current[1].content) # <<>>
                  THEN st.sections \o st.current ELSE st.sections,
              current |-> <<NewSection(doc_name, text, page_num)>>]
      ELSE IF st.current # <<>>
        THEN [st EXCEPT !.current[1].content = text \o <<" ">>]
      ELSE st

\* the body of "for elem in page['elements']"; st.sections is the list
\* sections and st.current is <<>> for None or <<current_section>>
ScanElement(st, e, page_num, doc_name, doc_analysis) ==
  LET text == Strip(e.text)
  IN  IF text = <<>> THEN st
      ELSE IF is_section_heading(e, doc_analysis)
        THEN [sections |->
                IF st.current # <<>> /\ Strip(st.current[1].content) # <<>>
                  THEN st.sections \o st.current ELSE st.sections,
              current |-> <<NewSection(doc_name, text, page_num)>>]
      ELSE IF st.current # <<>>
        THEN [st EXCEPT !.current[1].content = @ \o text \o <<" ">>]
      ELSE st

\* "for elem in page['elements']" from element j on
RECURSIVE ScanPage(_, _, _, _, _)
ScanPage(st, page, j, doc_name, doc_analysis) ==
  IF j > Len(page.elements) THEN st
  ELSE ScanPage(ScanElement(st, page.elements[j], page.page_num, doc_name,
                            doc_analysis),
                page, j + 1, doc_name, doc_analysis)

\* "for page in pages_content" from page i on
RECURSIVE ScanPages(_, _, _, _, _)
ScanPages(st, pages, i, doc_name, doc_analysis) ==
  IF i > Len(pages) THEN st
  ELSE ScanPages(ScanPage(st, pages[i], 1, doc_name, doc_analysis),
                 pages, i + 1, doc_name, doc_analysis)

\* extract_document_sections(document), for document["name"] = doc_name and
\* document["content"]["pages"] = pages
extract_document_sections(doc_name, pages) ==
  LET st == ScanPages([sections |-> <<>>, current |-> <<>>], pages, 1, doc_name,
                      analyze_document_structure(pages))
  IN  IF st.current # <<>> /\ Strip(st.current[1].content) # <<>>
        THEN st.sections \o st.current
        ELSE st.sections



----------------------------------------------------------------------------
(* Round1A: extract_document_title                                         *)

FirstPageLimit == 15     \* [:15]
MinTitleLength == 3      \* len(text) < 3
MaxTitleLength == 100    \* len(title) > 100

W_Document == <<"D","o","c","u","m","e","n","t">>

\* calculate_size_score(elem, doc_stats), in tenths
calculate_size_score(e, dominant) ==
  IF 10 * e.max_size >= 25 * dominant THEN 10
  ELSE IF 10 * e.max_size >= 20 * dominant THEN 9
  ELSE IF 10 * e.max_size >= 18 * dominant THEN 8
  ELSE IF 10 * e.max_size >= 15 * dominant THEN 7
  ELSE IF 10 * e.max_size >= 13 * dominant THEN 5
  ELSE 2

\* calculate_position_score(position), in tenths
calculate_position_score(position) ==
  IF position = 0 THEN 10
  ELSE IF position <= 2 THEN 8
  ELSE IF position <= 5 THEN 6
  ELSE 3

\* re.match(r'^\d+\.', text)
MatchNumberDot(text) ==
  LET a == SkipRun(text, 1, DigitSet)
  IN  a > 1 /\ At(text, a, {"."})

\* calculate_content_score(text): <<hundredths, rounding>>. The score is a
\* double; "score -= 0.5" gives, from 0.6, 0.7 and 0.8, the doubles just below
\* 0.1, just below 0.2 and just above 0.3 (rounding -1, -1, 1); every other
\* value of the score is the double nearest to its decimal (rounding 0)
calculate_content_score(text) ==
  LET word_count == Len(Split(text))
      length_part == IF 3 <= word_count /\ word_count <= 20 THEN 50
                     ELSE IF word_count <= 30 THEN 30 ELSE 0
      pattern_part == IF IsTitle(text) THEN 20
                      ELSE IF IsUpper(text) /\ word_count <= 12 THEN 30 ELSE 0
      penalty == \/ MatchNumberDot(text)
                 \/ StartsWith(Lower(text), <<"p","a","g","e"," ">>)
                 \/ StartsWith(Lower(text), <<"f","i","g","u","r","e"," ">>)
      score == length_part + pattern_part
  IN  IF ~penalty THEN <<score, 0>>
      ELSE IF score <= 50 THEN <<0, 0>>
      ELSE IF score = 80 THEN <<30, 1>>
      ELSE <<score - 50, -1>>

\* calculate_style_score(elem), in tenths
calculate_style_score(e) ==
  (IF e.is_bold THEN 6 ELSE 0) + (IF e.is_italic THEN 2 ELSE 0)

\* the values of the four scores, in the order of the table below
SizeScores == <<2, 5, 7, 8, 9, 10>>
PositionScores == <<3, 6, 8, 10>>
ContentScores == << <<0, 0>>, <<10, -1>>, <<20, -1>>, <<20, 0>>, <<30, 0>>,
                    <<30, 1>>, <<50, 0>>, <<60, 0>>, <<70, 0>>, <<80, 0>> >>
StyleScores == <<0, 2, 6, 8>>

IndexOf(values, v) == CHOOSE i \in 1..Len(values) : values[i] = v

\* the rounding of size_score * 0.4 + position_score * 0.2 + content_score *
\* 0.2 + style_score * 0.2 in double arithmetic: scores with the same decimal
\* sum give up to four different doubles, and the entry is the place (0 for
\* the least) of the double among the doubles of that sum. A row is for a
\* size score and a position score, a column for a content score and a style
\* score, in the orders above
TotalRounding ==
  << <<0,1,0,1,0,0,0,1,0,0,0,1,1,1,1,2,0,1,0,1,0,1,0,1,1,0,0,1,0,1,1,2,0,1,1,2,1,2,2,2>>,
     <<0,1,0,1,0,0,0,1,0,0,0,1,1,0,0,1,0,1,1,2,0,1,1,2,1,2,2,2,0,0,1,1,0,1,0,1,1,1,1,0>>,
     <<2,0,1,2,1,1,2,3,0,1,1,2,0,1,1,2,1,2,2,2,1,2,2,2,2,3,2,2,1,1,1,0,1,2,1,1,2,2,0,1>>,
     <<0,1,1,2,1,2,2,2,0,0,1,1,1,2,2,2,1,1,1,1,1,1,1,1,1,2,1,1,1,2,0,1,2,2,1,1,2,2,1,1>>,
     <<0,1,1,2,0,1,1,2,0,0,1,1,1,2,2,2,0,0,1,1,0,0,1,1,0,1,0,0,1,2,1,1,1,2,0,1,2,2,1,1>>,
     <<0,0,1,1,1,1,1,1,0,1,0,0,0,1,0,0,1,2,1,1,1,2,1,1,2,2,1,1,1,0,1,1,0,1,0,0,1,0,1,1>>,
     <<1,1,1,0,2,2,1,1,1,2,0,1,1,2,0,1,2,2,1,1,2,2,1,1,2,2,1,1,1,0,1,1,1,1,0,1,0,1,0,0>>,
     <<1,2,0,1,2,2,1,1,1,0,1,1,2,2,1,1,1,1,1,1,1,1,1,1,1,1,0,1,0,1,0,0,1,1,1,1,1,1,0,1>>,
     <<0,1,0,1,0,1,0,0,0,0,0,1,1,2,1,1,0,0,0,1,0,0,0,1,0,0,0,0,0,1,0,0,0,0,0,0,1,1,0,1>>,
     <<0,0,0,1,1,0,1,1,0,0,0,0,0,0,0,0,0,1,0,0,0,1,0,0,1,1,0,1,0,1,0,0,0,0,0,0,1,1,0,1>>,
     <<1,0,1,1,1,1,1,1,0,0,0,0,0,0,0,0,1,1,0,1,1,1,0,1,1,1,1,1,1,1,0,1,0,0,0,0,1,1,1,1>>,
     <<0,0,0,0,1,1,0,1,0,1,0,0,0,1,0,0,1,1,1,1,1,1,1,1,0,0,0,0,0,0,0,0,0,1,0,0,0,0,0,0>>,
     <<2,2,1,1,2,2,0,1,2,2,1,1,2,2,1,1,2,2,1,1,2,2,1,1,2,1,1,1,1,1,0,1,0,1,0,0,1,1,1,1>>,
     <<2,2,1,1,2,2,1,1,1,0,1,1,2,1,1,1,1,1,0,1,2,2,1,2,1,1,1,1,1,1,0,1,1,1,1,1,1,1,1,1>>,
     <<2,1,1,1,2,2,1,2,1,2,1,1,1,2,1,1,1,1,1,1,2,2,2,2,1,1,1,1,1,1,1,1,1,2,1,1,1,1,1,1>>,
     <<0,1,0,0,1,1,1,1,1,1,0,1,1,1,0,1,1,1,1,1,1,1,1,1,0,1,0,0,0,0,0,0,1,1,0,0,0,1,0,0>>,
     <<2,2,1,1,2,2,1,1,1,1,1,1,2,2,1,1,1,0,1,1,1,0,1,1,0,1,0,0,1,1,1,1,1,1,0,1,1,1,1,1>>,
     <<1,0,1,1,1,1,0,1,0,1,0,0,0,1,0,0,1,1,1,1,1,1,1,1,1,1,1,1,1,1,1,1,0,1,0,0,1,1,1,1>>,
     <<0,1,0,0,1,1,1,1,1,1,0,1,1,1,0,1,1,1,1,1,1,1,1,1,0,1,0,0,0,0,0,0,1,1,0,0,0,1,0,0>>,
     <<1,1,0,1,1,1,1,1,1,1,1,1,1,1,1,1,1,2,1,1,1,2,1,1,1,1,0,0,0,1,0,0,1,1,0,0,1,1,0,0>>,
     <<1,1,1,1,1,0,1,1,1,1,0,1,1,1,0,1,0,1,0,0,0,1,0,0,1,1,0,1,1,1,1,1,0,0,0,0,1,2,1,1>>,
     <<0,1,0,0,1,1,1,1,1,1,0,1,1,1,0,1,1,1,1,1,1,1,1,1,0,1,0,0,0,0,0,0,1,1,0,0,0,1,0,0>>,
     <<1,1,0,1,1,1,1,1,1,1,1,1,1,1,1,1,1,2,1,1,1,2,1,1,1,1,0,0,0,1,0,0,1,1,0,0,1,1,0,0>>,
     <<1,1,1,1,1,2,1,1,1,1,1,1,1,1,1,1,2,2,1,1,2,2,1,1,1,1,0,0,1,1,0,0,1,1,0,0,1,1,0,0>> >>

\* total_score as the sort of title_candidates sees it: <<the sum in
\* thousandths, the place of its double among the doubles of that sum>>
total_score(size_score, position_score, content_score, style_score) ==
  <<40 * size_score + 20 * position_score + 2 * content_score[1]
      + 20 * style_score,
    TotalRounding[4 * (IndexOf(SizeScores, size_score) - 1)
                    + IndexOf(PositionScores, position_score)]
                 [4 * (IndexOf(ContentScores, content_score) - 1)
                    + IndexOf(StyleScores, style_score)]>>

\* x[0] < y[0] for two entries of title_candidates
TotalLess(a, b) ==
  \/ a[1] < b[1]
  \/ a[1] = b[1] /\ a[2] < b[2]

\* first_page_elements: the elements of page 0, the first 15 of them
RECURSIVE OnFirstPage(_)
OnFirstPage(elements) ==
  IF elements = <<>> THEN <<>>
  ELSE (IF elements[1].page = 0 THEN <<elements[1]>> ELSE <<>>)
       \o OnFirstPage(Tail(elements))

FirstPageElements(elements) ==
  SubSeq(OnFirstPage(elements), 1, Min(FirstPageLimit, Len(OnFirstPage(elements))))

\* title_candidates before the sort: (total_score, text) of the elements whose
\* stripped text has 3 characters or more, from element i on
RECURSIVE TitleCandidates(_, _, _)
TitleCandidates(first_page, i, dominant) ==
  IF i > Len(first_page) THEN <<>>
  ELSE LET text == Strip(first_page[i].text)
       IN  (IF Len(text) < MinTitleLength THEN <<>>
            ELSE << <<total_score(calculate_size_score(first_page[i], dominant),
                                  calculate_position_score(i - 1),
                                  calculate_content_score(text),
                                  calculate_style_score(first_page[i])),
                      text>> >>)
           \o TitleCandidates(first_page, i + 1, dominant)

\* title_candidates.sort(key=lambda x: x[0], reverse=True); title_candidates[0]:
\* the sort is stable, so the first of the candidates with the best total_score
BestCandidate(candidates) ==
  CHOOSE i \in 1..Len(candidates) :
    /\ \A j \in 1..Len(candidates) : ~TotalLess(candidates[i][1], candidates[j][1])
    /\ \A j \in 1..(i - 1) : candidates[j][1] # candidates[i][1]

\* clean_title(title)
clean_title(best_title) ==
  LET collapsed == Join(Split(best_title))
      words == Split(SubSeq(collapsed, 1, Min(MaxTitleLength, Len(collapsed))))
      cut == IF Len(collapsed) > MaxTitleLength /\ Len(words) > 1
               THEN Join(SubSeq(words, 1, Len(words) - 1))
               ELSE collapsed
  IN  IF Len(cut) >= MinTitleLength THEN cut ELSE W_Document

\* extract_document_title(text_elements, doc_stats)
extract_document_title(elements, stats) ==
  IF elements = <<>> THEN W_Document
  ELSE LET candidates == TitleCandidates(FirstPageElements(elements), 1,
                                         stats.dominant_size)
       IN  IF candidates # <<>>
             THEN clean_title(candidates[BestCandidate(candidates)][2])
             ELSE W_Document

----------------------------------------------------------------------------
(* Round1A: determine_heading_level                                        *)

\* "Primary classification by size"; the thresholds are in tenths of a point
BaseLevel(size, thresholds) ==
  IF 10 * size >= thresholds.h1 THEN "H1"
  ELSE IF 10 * size >= thresholds.h2 THEN "H2"
  ELSE "H3"

\* re.match(r'^\d+\.\d+', text)
MatchNumberDotNumber(text) ==
  LET a == SkipRun(text, 1, DigitSet)
  IN  a > 1 /\ At(text, a, {"."}) /\ At(text, a + 1, DigitSet)

\* text.lower() in ['abstract', 'introduction', 'conclusion', 'references']
IsFrontMatterWord(text) ==
  Lower(text) \in {Lower(W_Abstract), Lower(W_Introduction), Lower(W_Conclusion),
                   Lower(W_References)}

\* a slip in the fourth branch: the base level left out
LevelIgnoringBase(e, thresholds, text) ==
  IF MatchWordNumber(text, {W_Chapter, W_Part}) THEN "H1"
  ELSE IF MatchWordNumber(text, {W_Section}) THEN "H2"
  ELSE IF MatchNumberDotNumber(text) THEN "H3"
  ELSE IF MatchSingleNumber(text) THEN "H2"
  ELSE IF IsFrontMatterWord(text) THEN "H1"
  ELSE BaseLevel(e.max_size, thresholds)

\* determine_heading_level(elem, thresholds, text)
determine_heading_level(e, thresholds, text) ==
  LET base_level == BaseLevel(e.max_size, thresholds)
  IN  IF MatchWordNumber(text, {W_Chapter, W_Part}) THEN "H1"
      ELSE IF MatchWordNumber(text, {W_Section}) THEN "H2"
      ELSE IF MatchNumberDotNumber(text) THEN "H3"
      ELSE IF MatchSingleNumber(text) /\ base_level # "H3" THEN "H2"
      ELSE IF IsFrontMatterWord(text) THEN "H1"
      ELSE base_level

----------------------------------------------------------------------------
(* Round1B: RelevanceScorer.  A score that is a quotient is the pair        *)
(* <<numerator, denominator>> of the exact value; the other sub-scores are *)
(* in tenths and the weights in hundredths.                                *)

\* sum(1 for keyword in keywords if keyword.lower() in text)
KeywordMatches(keywords, text) ==
  Cardinality({k \in keywords : Contains(text, Lower(k))})

\* calculate_keyword_score(section, persona_profile):
\* expertise_score * 0.4 + priority_score * 0.6, as <<num, den>>
calculate_keyword_score(section, profile) ==
  LET expertise_areas == profile.expertise_areas
      job_priorities == profile.job_priorities
      text == Lower(section.title \o <<" ">> \o section.content)
      expertise_matches == KeywordMatches(expertise_areas, text)
      priority_matches == KeywordMatches(job_priorities, text)
      expertise_len == Max(Cardinality(expertise_areas), 1)
      priority_len == Max(Cardinality(job_priorities), 1)
      \* min(matches / max(len, 1), 1.0), as numerator over the len
      expertise_score == Min(expertise_matches, expertise_len)
      priority_score == Min(priority_matches, priority_len)
  IN  <<4 * expertise_score * priority_len + 6 * priority_score * expertise_len,
        10 * expertise_len * priority_len>>

\* calculate_section_type_score(section, persona_profile), in tenths
calculate_section_type_score(section, profile) ==
  LET section_type == section.section_type
      persona_type == profile.persona_type
  IN  IF persona_type = "academic_researcher" THEN
        IF section_type \in {"methodology", "results"} THEN 9
        ELSE IF section_type = "discussion" THEN 8
        ELSE IF section_type = "abstract" THEN 7
        ELSE IF section_type = "introduction" THEN 6
        ELSE 5
      ELSE IF persona_type = "business_analyst" THEN
        IF section_type = "results" THEN 9
        ELSE IF section_type = "discussion" THEN 8
        ELSE IF section_type = "abstract" THEN 7
        ELSE 5
      ELSE IF persona_type = "student" THEN
        IF section_type = "introduction" THEN 9
        ELSE IF section_type = "methodology" THEN 7
        ELSE IF section_type = "abstract" THEN 8
        ELSE 5
      ELSE 5

\* len(s.split()): the places of s where a word starts
WordCount(s) ==
  Cardinality({i \in 1..Len(s) :
                 s[i] \notin SpaceSet /\ (i = 1 \/ s[i - 1] \in SpaceSet)})

\* calculate_content_depth_score(section), in tenths
calculate_content_depth_score(section) ==
  LET word_count == WordCount(section.content)
  IN  IF word_count < 50 THEN 3
      ELSE IF word_count < 200 THEN 6
      ELSE IF word_count < 500 THEN 8
      ELSE 10

\* one match of r'\b\d+(?:\.\d+)?%?\b' at position i of s: 0 when there is
\* none, else the position after the match.  The longer alternatives are
\* tried first: with the fraction and the "%", with the fraction, with the
\* "%", the digits alone.
NumberMatchEnd(s, i) ==
  IF ~(At(s, i, DigitSet) /\ WordBoundary(s, i)) THEN 0
  ELSE LET d == SkipRun(s, i, DigitSet)
           f == IF At(s, d, {"."}) /\ At(s, d + 1, DigitSet)
                  THEN SkipRun(s, d + 1, DigitSet) ELSE d
       IN  IF f > d /\ At(s, f, {"%"}) /\ WordBoundary(s, f + 1) THEN f + 1
           ELSE IF f > d /\ WordBoundary(s, f) THEN f
           ELSE IF At(s, d, {"%"}) /\ WordBoundary(s, d + 1) THEN d + 1
           ELSE IF WordBoundary(s, d) THEN d
           ELSE 0

\* re.findall finds a match at position i: there is one, and i is not inside
\* the match found before it, which can only be as the fraction of a number
\* that starts at k
RECURSIVE NumberFoundAt(_, _)
NumberFoundAt(s, i) ==
  /\ NumberMatchEnd(s, i) > 0
  /\ ~(/\ i >= 3
       /\ s[i - 1] = "."
       /\ s[i - 2] \in DigitSet
       /\ LET k == CHOOSE j \in 1..(i - 2) :
                     /\ j = 1 \/ s[j - 1] \notin DigitSet
                     /\ \A m \in j..(i - 2) : s[m] \in DigitSet
          IN  NumberFoundAt(s, k) /\ NumberMatchEnd(s, k) > i)

StatisticalTerms ==
  {<<"m","e","a","n">>, <<"m","e","d","i","a","n">>, <<"a","v","e","r","a","g","e">>, <<"a","n","a","l","y","s","i","s">>}

\* one match of r'\b(?:mean|median|average|analysis)\b' with re.I at i
StatisticalTermAt(s, i) ==
  \E term \in StatisticalTerms :
    /\ i + Len(term) - 1 <= Len(s)
    /\ WordBoundary(s, i)
    /\ WordBoundary(s, i + Len(term))
    /\ \A j \in 1..Len(term) : LowerChar(s[i + j - 1]) = term[j]

\* calculate_quantitative_score(section): min(quant_indicators / 5.0, 1.0),
\* in tenths
calculate_quantitative_score(section) ==
  LET content == section.title \o <<" ">> \o section.content
      numbers == Cardinality({i \in 1..Len(content) : NumberFoundAt(content, i)})
      statistical_terms ==
        Cardinality({i \in 1..Len(content) : StatisticalTermAt(content, i)})
      quant_indicators == numbers + statistical_terms * 2
  IN  Min(2 * quant_indicators, 10)

\* RelevanceScorer.calculate_position_score(section), in tenths
calculate_section_position_score(section) ==
  LET page == section.page
  IN  IF page = 0 THEN 10
      ELSE IF page <= 2 THEN 8
      ELSE IF page <= 5 THEN 6
      ELSE 4

\* the five sub-scores calculate_relevance_score computes
SubScores(section, profile) ==
  [keyword |-> calculate_keyword_score(section, profile),
   section_type |-> calculate_section_type_score(section, profile),
   content_depth |-> calculate_content_depth_score(section),
   quantitative |-> calculate_quantitative_score(section),
   position |-> calculate_section_position_score(section)]

\* total_score of calculate_relevance_score, as <<num, den>>
WeightedTotal(scores, weights) ==
  <<10 * scores.keyword[1] * weights.keyword_match
      + scores.keyword[2] * (scores.section_type * weights.section_type
                             + scores.content_depth * weights.content_depth
                             + scores.quantitative * weights.quantitative_content
                             + scores.position * weights.position_importance),
    1000 * scores.keyword[2]>>

\* a slip in the last line: the total returned as it is
RelevanceUncapped(section, profile) ==
  WeightedTotal(SubScores(section, profile), profile.relevance_weights)

\* calculate_relevance_score(section, persona_profile): min(total_score, 1.0)
calculate_relevance_score(section, profile) ==
  LET weights == profile.relevance_weights
      total == WeightedTotal(SubScores(section, profile), weights)
  IN  IF total[1] > total[2] THEN <<1, 1>> ELSE total

----------------------------------------------------------------------------
(* Each specification below runs one part of the program; the variables of *)
(* the other parts rest in these states.                                   *)

IdleOutline ==
  /\ outline = <<>>
  /\ scanPage = 0
  /\ filtered_outline = <<>>
  /\ rerun_outline = <<>>
  /\ pcOutline = "idle"

IdleHeading ==
  /\ elem = NoElement
  /\ dominant_size = 12
  /\ heading_score = 0
  /\ pcHeading = "idle"

IdleStats ==
  /\ text_elements = <<>>
  /\ doc_stats = NoStats
  /\ pcStats = "idle"

IdleRank ==
  /\ scored_sections = <<>>
  /\ docIndex = 0
  /\ selected_sections = <<>>
  /\ pcRank = "idle"

IdlePersona ==
  /\ persona = <<>>
  /\ persona_profile = NoProfile
  /\ pcPersona = "idle"

IdleBatch ==
  /\ input_dir = <<>>
  /\ pdf_files = <<>>
  /\ filePos = 0
  /\ extraction = <<>>
  /\ output_dir = <<>>
  /\ save_failed = FALSE
  /\ pcBatch = "idle"

IdleFlow ==
  /\ listed = <<>>
  /\ config = NoConfig
  /\ config_source = "file"
  /\ docPos = 0
  /\ doc_status = <<>>
  /\ documents = <<>>
  /\ segPos = 0
  /\ all_sections = <<>>
  /\ result = <<>>
  /\ output_file = <<>>
  /\ raised = FALSE
  /\ pcFlow = "idle"

IdleSegment ==
  /\ pages_content = <<>>
  /\ returned_sections = <<>>
  /\ pcSegment = "idle"

IdleLine ==
  /\ line_elem = <<>>
  /\ line_analysis = <<>>
  /\ heading_verdict = FALSE
  /\ pcLine = "idle"

IdleOutput ==
  /\ segmented = <<>>
  /\ scored = <<>>
  /\ top_sections = <<>>
  /\ collection_output = <<>>
  /\ pcOutput = "idle"

IdleTitle ==
  /\ title_elements = <<>>
  /\ document_title = <<>>
  /\ pcTitle = "idle"

IdleLevel ==
  /\ level_elem = <<>>
  /\ level_thresholds = <<>>
  /\ heading_level = ""
  /\ pcLevel = "idle"

IdleScoring ==
  /\ score_profile = <<>>
  /\ score_section = <<>>
  /\ sub_scores = <<>>
  /\ relevance = <<>>
  /\ pcScoring = "idle"

----------------------------------------------------------------------------
(* Inputs of the outline post-processor                                    *)

MaxFree == 2       \* candidates appended one by one, in any order
MaxPages == 5      \* pages scanned page by page

Cand(l, t, p, c) == [level |-> l, text |-> t, page |-> p, confidence |-> c]

FreeTexts == { <<"a">>, <<"A", " ">>, <<"b">> }
FreeCandidates ==
  { Cand(l, t, p, c) : l \in {"H1", "H2"}, t \in FreeTexts,
                       p \in {0, 1}, c \in {65, 70, 90} }

\* the heading candidates of one page, in reading order: <<level, text, confidence>>
PageBlocks ==
  { << <<"H1", <<"a">>, 90>>, <<"H2", <<"b">>, 85>>, <<"H2", <<"c">>, 80>>,
       <<"H3", <<"d">>, 75>>, <<"H3", <<"e">>, 70>> >>,
    << <<"H2", <<"a">>, 70>>, <<"H2", <<"b">>, 95>>, <<"H2", <<"c">>, 80>>,
       <<"H2", <<"d">>, 80>>, <<"H2", <<"e">>, 100>>, <<"H2", <<"f">>, 75>> >>,
    << <<"H1", <<"A">>, 75>>, <<"H3", <<"b">>, 65>>, <<"H2", <<" ", "a">>, 100>>,
       <<"H2", <<"c">>, 85>>, <<"H2", <<"d">>, 85>>, <<"H2", <<"E">>, 90>>,
       <<"H2", <<"f">>, 70>> >>,
    << <<"H1", <<"a">>, 100>>, <<"H2", <<"b">>, 100>>, <<"H2", <<"c">>, 70>>,
       <<"H1", <<"C", " ">>, 95>>, <<"H2", <<"d">>, 90>> >> }

InitOutline ==
  /\ IdleHeading /\ IdleStats /\ IdleRank /\ IdlePersona /\ IdleBatch /\ IdleFlow /\ IdleSegment /\ IdleLine /\ IdleOutput /\ IdleTitle /\ IdleLevel /\ IdleScoring
  /\ outline = <<>>
  /\ scanPage = 0
  /\ filtered_outline = <<>>
  /\ rerun_outline = <<>>
  /\ pcOutline = "collect"

\* extract_document_outline: one candidate is appended to the outline
CollectCandidate ==
  /\ pcOutline = "collect"
  /\ scanPage = 0
  /\ Len(outline) < MaxFree
  /\ \E c \in FreeCandidates : outline' = Append(outline, c)
  /\ UNCHANGED <<scanPage, filtered_outline, rerun_outline, pcOutline>>
  /\ UNCHANGED <<varsHeading, varsStats, varsRank, varsPersona, varsBatch, varsFlow, varsSegment, varsLine, varsOutput, varsTitle, varsLevel, varsScoring>>

\* extract_document_outline: the candidates of the next page are appended
CollectPage ==
  /\ pcOutline = "collect"
  /\ scanPage < MaxPages
  /\ scanPage = 0 => outline = <<>>
  /\ \E b \in PageBlocks :
       outline' = outline \o
                  [i \in 1..Len(b) |-> Cand(b[i][1], b[i][2], scanPage, b[i][3])]
  /\ scanPage' = scanPage + 1
  /\ UNCHANGED <<filtered_outline, rerun_outline, pcOutline>>
  /\ UNCHANGED <<varsHeading, varsStats, varsRank, varsPersona, varsBatch, varsFlow, varsSegment, varsLine, varsOutput, varsTitle, varsLevel, varsScoring>>

\* outline = self.post_process_outline(outline)
PostProcess ==
  /\ pcOutline = "collect"
  /\ filtered_outline' = post_process_outline(outline)
  /\ pcOutline' = "processed"
  /\ UNCHANGED <<outline, scanPage, rerun_outline>>
  /\ UNCHANGED <<varsHeading, varsStats, varsRank, varsPersona, varsBatch, varsFlow, varsSegment, varsLine, varsOutput, varsTitle, varsLevel, varsScoring>>

\* post_process_outline given its own output
Reprocess ==
  /\ pcOutline = "processed"
  /\ rerun_outline' = post_process_outline(filtered_outline)
  /\ pcOutline' = "reprocessed"
  /\ UNCHANGED <<outline, scanPage, filtered_outline>>
  /\ UNCHANGED <<varsHeading, varsStats, varsRank, varsPersona, varsBatch, varsFlow, varsSegment, varsLine, varsOutput, varsTitle, varsLevel, varsScoring>>

NextOutline == CollectCandidate \/ CollectPage \/ PostProcess \/ Reprocess

SpecOutline == InitOutline /\ [][NextOutline]_vars

OutlineReturned == pcOutline \in {"processed", "reprocessed"}

HasDuplicateKey(items) ==
  \E i, j \in 1..Len(items) : i < j /\ DedupKey(items[i]) = DedupKey(items[j])

EntriesOnPage(items, p) == {i \in 1..Len(items) : items[i].page = p}

\* C1: the outline post_process_outline returns has at most 5 entries on any
\* page, at most 20 entries in all, and no two entries with the same
\* (lowercased trimmed text, page) pair.
C1_OutlineCaps ==
  OutlineReturned =>
    /\ \A i \in 1..Len(filtered_outline) :
         Cardinality(EntriesOnPage(filtered_outline, filtered_outline[i].page))
           <= 5
    /\ Len(filtered_outline) <= 20
    /\ ~HasDuplicateKey(filtered_outline)

\* an input with a repeated key and more than 5 good candidates on a page, of
\* which more than 20 pass the per-page filter
C1_Witness ==
  /\ pcOutline = "processed"
  /\ HasDuplicateKey(outline)
  /\ Len(PerPageFiltered(outline)) > 20
  /\ \E p \in 0..MaxPages :
       /\ Cardinality({DedupKey(outline[i]) :
                         i \in {j \in EntriesOnPage(outline, p) :
                                  outline[j].confidence >= 70}}) > 5
       /\ Cardinality(EntriesOnPage(filtered_outline, p)) = 5
  /\ Len(filtered_outline) = 20

\* C4: post_process_outline applied to its own output returns the same
\* entries, also when the first run truncated to the global limit.
C4_Idempotent ==
  pcOutline = "reprocessed" =>
    /\ SeqToSet(rerun_outline) = SeqToSet(filtered_outline)
    /\ Len(rerun_outline) = Len(filtered_outline)

\* a second run after a first run that removed duplicates, dropped entries
\* over the per-page cap and truncated to the global limit
C4_Witness ==
  /\ pcOutline = "reprocessed"
  /\ Len(PerPageFiltered(outline)) > 20
  /\ HasDuplicateKey(outline)
  /\ Len(filtered_outline) = 20
  /\ rerun_outline = filtered_outline

----------------------------------------------------------------------------
(* The heading scorer on one element                                       *)

InitHeading ==
  /\ IdleOutline /\ IdleStats /\ IdleRank /\ IdlePersona /\ IdleBatch /\ IdleFlow /\ IdleSegment /\ IdleLine /\ IdleOutput /\ IdleTitle /\ IdleLevel /\ IdleScoring
  /\ elem \in { Element(t, size, bold) :
                  t \in HeadingTexts, size \in ElementSizes, bold \in BOOLEAN }
  /\ dominant_size \in DominantSizes
  /\ heading_score = 0
  /\ pcHeading = "element"

\* heading_score = self.calculate_heading_score(elem, doc_stats)
ScoreHeading ==
  /\ pcHeading = "element"
  /\ heading_score' = calculate_heading_score(elem, dominant_size)
  /\ pcHeading' = "scored"
  /\ UNCHANGED <<elem, dominant_size>>
  /\ UNCHANGED <<varsOutline, varsStats, varsRank, varsPersona, varsBatch, varsFlow, varsSegment, varsLine, varsOutput, varsTitle, varsLevel, varsScoring>>

NextHeading == ScoreHeading

SpecHeading == InitHeading /\ [][NextHeading]_vars

\* C3: the heading-likelihood score of every element lies in [0,1]: it is
\* never above 1.0 and never below 0.
C3_ScoreInUnitInterval ==
  pcHeading = "scored" => 0 <= heading_score /\ heading_score <= 100

\* what the code does guarantee: the cap at 1.0, and no less than the two
\* penalties together (-0.3 and -0.2)
ScoreCappedAbove ==
  pcHeading = "scored" => -50 <= heading_score /\ heading_score <= 100

----------------------------------------------------------------------------
(* The statistics of an element list                                       *)

InitStats ==
  /\ IdleOutline /\ IdleHeading /\ IdleRank /\ IdlePersona /\ IdleBatch /\ IdleFlow /\ IdleSegment /\ IdleLine /\ IdleOutput /\ IdleTitle /\ IdleLevel /\ IdleScoring
  /\ text_elements = <<>>
  /\ doc_stats = NoStats
  /\ pcStats = "extract"

\* extract_formatted_text: one more line of text
ExtractElement ==
  /\ pcStats = "extract"
  /\ Len(text_elements) < MaxElements
  /\ \E size \in FontSizes :
       text_elements' = Append(text_elements, Element(W_Line, size, FALSE))
  /\ UNCHANGED <<doc_stats, pcStats>>
  /\ UNCHANGED <<varsOutline, varsHeading, varsRank, varsPersona, varsBatch, varsFlow, varsSegment, varsLine, varsOutput, varsTitle, varsLevel, varsScoring>>

\* doc_stats = self.analyze_document_statistics(text_elements)
AnalyzeStatistics ==
  /\ pcStats = "extract"
  /\ doc_stats' = analyze_document_statistics(text_elements)
  /\ pcStats' = "analyzed"
  /\ UNCHANGED text_elements
  /\ UNCHANGED <<varsOutline, varsHeading, varsRank, varsPersona, varsBatch, varsFlow, varsSegment, varsLine, varsOutput, varsTitle, varsLevel, varsScoring>>

NextStats == ExtractElement \/ AnalyzeStatistics

SpecStats == InitStats /\ [][NextStats]_vars

SizesOf(elements) == {elements[i].max_size : i \in 1..Len(elements)}

SizeCount(elements, v) ==
  Cardinality({i \in 1..Len(elements) : elements[i].max_size = v})

\* C8: for a non-empty element list with positive sizes the thresholds are
\* ordered h1 >= h2 >= h3; with 3 or more distinct sizes they are the three
\* largest distinct sizes in descending order, with fewer they are
\* max(dominant*1.5, maxSize*0.9), dominant*1.3 and dominant*1.1, the dominant
\* size being a most frequent one.
C8_ThresholdsOrdered ==
  (pcStats = "analyzed" /\ text_elements # <<>>) =>
    LET sizes == SizesOf(text_elements)
        th == doc_stats.size_thresholds
        dom == doc_stats.dominant_size
    IN  /\ th.h1 >= th.h2 /\ th.h2 >= th.h3
        /\ dom \in sizes
        /\ \A v \in sizes : SizeCount(text_elements, v) <= SizeCount(text_elements, dom)
        /\ Cardinality(sizes) >= 3 =>
             \E a, b, c \in sizes :
               /\ a > b /\ b > c
               /\ \A x \in sizes \ {a, b, c} : x < c
               /\ th = Thresholds(10 * a, 10 * b, 10 * c)
        /\ Cardinality(sizes) < 3 =>
             /\ th.h1 >= 15 * dom /\ th.h1 >= 9 * SetMax(sizes)
             /\ th.h1 \in {15 * dom, 9 * SetMax(sizes)}
             /\ th.h2 = 13 * dom
             /\ th.h3 = 11 * dom

\* statistics of a list with three or more distinct sizes whose dominant size
\* is none of the three largest
C8_Witness ==
  /\ pcStats = "analyzed"
  /\ Cardinality(SizesOf(text_elements)) >= 4
  /\ 10 * doc_stats.dominant_size < doc_stats.size_thresholds.h3
  /\ doc_stats.size_thresholds.h1 > doc_stats.size_thresholds.h2

----------------------------------------------------------------------------
(* The ranker on the scored sections of a collection                       *)

MaxFreeSections == 3   \* sections appended one by one, from any document
MaxDocs == 4           \* documents that add their sections one after another

DigitChars == <<"0","1","2","3","4","5","6","7","8","9">>

\* the decimal numeral of n, for n < 100
Numeral(n) ==
  IF n < 10 THEN <<DigitChars[n + 1]>>
  ELSE <<DigitChars[(n \div 10) + 1], DigitChars[(n % 10) + 1]>>

DocName(d) == <<"d","o","c">> \o Numeral(d) \o <<".","p","d","f">>

\* a scored section; its title tells the sections of the list apart
ScoredSection(doc, i, score) ==
  [title |-> <<"S">> \o Numeral(i), document |-> DocName(doc),
   relevance_score |-> <<score, 100>>]

FreeScores == {20, 30, 50, 80}

\* the scores (in hundredths) of the sections of one document, in the order
\* of the document
DocumentScores ==
  { <<45, 29>>,
    <<70, 70, 70>>,
    <<90, 30, 60, 31, 10>>,
    <<35, 80, 30, 55, 80, 40, 95, 60, 30, 75, 50, 65>> }

InitRank ==
  /\ IdleOutline /\ IdleHeading /\ IdleStats /\ IdlePersona /\ IdleBatch /\ IdleFlow /\ IdleSegment /\ IdleLine /\ IdleOutput /\ IdleTitle /\ IdleLevel /\ IdleScoring
  /\ scored_sections = <<>>
  /\ docIndex = 0
  /\ selected_sections = <<>>
  /\ pcRank = "score"

\* score_sections: one more scored section, of either of two documents
AppendSection ==
  /\ pcRank = "score"
  /\ docIndex = 0
  /\ Len(scored_sections) < MaxFreeSections
  /\ \E d \in {1, 2}, sc \in FreeScores :
       scored_sections' =
         Append(scored_sections, ScoredSection(d, Len(scored_sections) + 1, sc))
  /\ UNCHANGED <<docIndex, selected_sections, pcRank>>
  /\ UNCHANGED <<varsOutline, varsHeading, varsStats, varsPersona, varsBatch, varsFlow, varsSegment, varsLine, varsOutput, varsTitle, varsLevel, varsScoring>>

\* all_sections.extend(doc_sections), scored: the sections of the next document
ExtendWithDocument ==
  /\ pcRank = "score"
  /\ docIndex < MaxDocs
  /\ docIndex = 0 => scored_sections = <<>>
  /\ \E b \in DocumentScores :
       scored_sections' =
         scored_sections \o
         [i \in 1..Len(b) |->
            ScoredSection(docIndex + 1, Len(scored_sections) + i, b[i])]
  /\ docIndex' = docIndex + 1
  /\ UNCHANGED <<selected_sections, pcRank>>
  /\ UNCHANGED <<varsOutline, varsHeading, varsStats, varsPersona, varsBatch, varsFlow, varsSegment, varsLine, varsOutput, varsTitle, varsLevel, varsScoring>>

\* selected_sections = self.section_ranker.rank_and_select(scored_sections)
RankAndSelect ==
  /\ pcRank = "score"
  /\ selected_sections' = rank_and_select(scored_sections)
  /\ pcRank' = "ranked"
  /\ UNCHANGED <<scored_sections, docIndex>>
  /\ UNCHANGED <<varsOutline, varsHeading, varsStats, varsPersona, varsBatch, varsFlow, varsSegment, varsLine, varsOutput, varsTitle, varsLevel, varsScoring>>

NextRank == AppendSection \/ ExtendWithDocument \/ RankAndSelect

SpecRank == InitRank /\ [][NextRank]_vars

Eligible(sections) == {i \in 1..Len(sections) : ~BelowMinScore(sections[i])}

FromDocument(sections, doc) ==
  {i \in 1..Len(sections) : sections[i].document = doc}

\* C2: rank_and_select returns at most 10 sections, at most 3 of one document,
\* and none with a relevance score below 0.3.
C2_SelectionCaps ==
  pcRank = "ranked" =>
    /\ Len(selected_sections) <= 10
    /\ \A i \in 1..Len(selected_sections) :
         /\ Cardinality(FromDocument(selected_sections,
                                     selected_sections[i].document)) <= 3
         /\ 10 * selected_sections[i].relevance_score[1]
              >= 3 * selected_sections[i].relevance_score[2]

\* more than 10 sections could be selected, one document offers more than 3
\* good sections, some section is below 0.3, and 10 are returned
C2_Witness ==
  /\ pcRank = "ranked"
  /\ Len(selected_sections) = 10
  /\ \E i \in 1..Len(scored_sections) : BelowMinScore(scored_sections[i])
  /\ \E i \in 1..Len(scored_sections) :
       Cardinality(FromDocument(scored_sections, scored_sections[i].document)
                   \cap Eligible(scored_sections)) > 3
  /\ Cardinality({scored_sections[i].document : i \in Eligible(scored_sections)})
       >= 4

SelectedTitles == {selected_sections[i].title : i \in 1..Len(selected_sections)}

\* C9: when all scored sections are of one document and 3 or more of them
\* score 0.3 or more, exactly 3 are returned and no section left out has a
\* score strictly greater than a returned one.
C9_TopThreeOfOneDocument ==
  ( /\ pcRank = "ranked"
    /\ \A i, j \in 1..Len(scored_sections) :
         scored_sections[i].document = scored_sections[j].document
    /\ Cardinality(Eligible(scored_sections)) >= 3 ) =>
      /\ Len(selected_sections) = 3
      /\ \A i \in 1..Len(scored_sections), j \in 1..Len(selected_sections) :
           scored_sections[i].title \notin SelectedTitles =>
             ~ScoreLess(selected_sections[j].relevance_score,
                        scored_sections[i].relevance_score)

\* 12 sections of one document, all at 0.3 or above, 3 of them returned
C9_Witness ==
  /\ pcRank = "ranked"
  /\ Len(scored_sections) = 12
  /\ docIndex = 1
  /\ Cardinality(Eligible(scored_sections)) = 12
  /\ Len(selected_sections) = 3
  /\ selected_sections[1].relevance_score = <<95, 100>>

----------------------------------------------------------------------------
(* The persona profile of a configuration                                  *)

MaxPersonaWords == 3   \* words of the persona text

PersonaWords ==
  { <<"P","h","D">>,
    <<"R","E","S","E","A","R","C","H","E","R","S">>,
    <<"A","n","a","l","y","s","t">>,
    <<"S","t","u","d","e","n","t">>,
    <<"E","n","g","i","n","e","e","r">>,
    <<"M","a","n","a","g","e","r">>,
    <<"U","n","d","e","r","g","r","a","d","u","a","t","e">>,
    <<"S","c","i","e","n","t","i","s","t">>,
    <<"F","i","n","a","n","c","i","a","l">>,
    <<"D","e","v","e","l","o","p","e","r">> }

InitPersona ==
  /\ IdleOutline /\ IdleHeading /\ IdleStats /\ IdleRank /\ IdleBatch /\ IdleFlow /\ IdleSegment /\ IdleLine /\ IdleOutput /\ IdleTitle /\ IdleLevel /\ IdleScoring
  /\ persona = <<>>
  /\ persona_profile = NoProfile
  /\ pcPersona = "config"

\* load_configuration: the persona text, one more word of it
PersonaWord ==
  /\ pcPersona = "config"
  /\ Len(Split(persona)) < MaxPersonaWords
  /\ \E w \in PersonaWords :
       persona' = IF persona = <<>> THEN w ELSE persona \o <<" ">> \o w
  /\ UNCHANGED <<persona_profile, pcPersona>>
  /\ UNCHANGED <<varsOutline, varsHeading, varsStats, varsRank, varsBatch, varsFlow, varsSegment, varsLine, varsOutput, varsTitle, varsLevel, varsScoring>>

\* persona_profile = self.persona_analyzer.create_persona_profile(...)
CreateProfile ==
  /\ pcPersona = "config"
  /\ persona_profile' =
       create_persona_profile(persona, DefaultConfig(<<>>).job_to_be_done)
  /\ pcPersona' = "profiled"
  /\ UNCHANGED persona
  /\ UNCHANGED <<varsOutline, varsHeading, varsStats, varsRank, varsBatch, varsFlow, varsSegment, varsLine, varsOutput, varsTitle, varsLevel, varsScoring>>

NextPersona == PersonaWord \/ CreateProfile

SpecPersona == InitPersona /\ [][NextPersona]_vars

\* the persona text, lowercased, has one of the words as a substring
Mentions(ws) ==
  \E w \in ws : \E i \in 1..Len(persona) :
    /\ i + Len(w) - 1 <= Len(persona)
    /\ Lower(SubSeq(persona, i, i + Len(w) - 1)) = w

\* C10: the profile has one persona_type, that of the first keyword group (in
\* the order academic, business, student, technical) the persona text matches,
\* general_professional when none; a persona text with "phd" or "researcher"
\* in it is an academic_researcher with technical_depth 0.9, whatever else it
\* contains.
C10_PersonaTypeFirstMatch ==
  pcPersona = "profiled" =>
    /\ persona_profile.persona_type =
         CASE Mentions(AcademicTerms) -> "academic_researcher"
           [] ~Mentions(AcademicTerms) /\ Mentions(BusinessTerms)
                -> "business_analyst"
           [] ~Mentions(AcademicTerms \cup BusinessTerms)
              /\ Mentions(StudentTerms) -> "student"
           [] ~Mentions(AcademicTerms \cup BusinessTerms \cup StudentTerms)
              /\ Mentions(TechnicalTerms) -> "technical_professional"
           [] OTHER -> "general_professional"
    /\ Mentions({T_phd, T_researcher}) =>
         /\ persona_profile.persona_type = "academic_researcher"
         /\ persona_profile.content_preferences.technical_depth = 90

\* a persona text with "phd" and also "analyst" and "student" has been profiled
C10_Witness ==
  /\ pcPersona = "profiled"
  /\ Mentions({T_phd})
  /\ Mentions({T_analyst})
  /\ Mentions({T_student})
  /\ persona_profile.persona_type = "academic_researcher"

----------------------------------------------------------------------------
(* Flow A: a batch of files                                                *)

MaxBatch == 3          \* files in the input directory

InputNames ==
  { <<"a",".","p","d","f">>,
    <<"b",".","p","d","f">>,
    <<"a",".","p","d","f",".","p","d","f">>,
    <<"a",".","j","s","o","n",".","p","d","f">>,
    <<"a",".","t","x","t">>,
    <<"a",".","P","D","F">> }

\* what extract_document_structure returns when it does not raise; a document
\* without a usable title and without headings gives the same as the fallback
ExtractedResults ==
  { [title |-> <<"D","o","c","u","m","e","n","t">>, outline |-> <<>>],
    [title |-> <<"T","i","t","l","e">>,
     outline |-> <<[level |-> "H1", text |-> <<"I","n","t","r","o">>, page |-> 1]>>] }

ExtractionOutcomes ==
  {[raised |-> TRUE, result |-> FallbackResult]}
    \cup {[raised |-> FALSE, result |-> r] : r \in ExtractedResults}

InitBatch ==
  /\ IdleOutline /\ IdleHeading /\ IdleStats /\ IdleRank /\ IdlePersona /\ IdleFlow /\ IdleSegment /\ IdleLine /\ IdleOutput /\ IdleTitle /\ IdleLevel /\ IdleScoring
  /\ input_dir = <<>>
  /\ pdf_files = <<>>
  /\ filePos = 0
  /\ extraction = <<>>
  /\ output_dir = <<>>
  /\ save_failed = FALSE
  /\ pcBatch = "listing"

\* one more file in the input directory (names in a directory are distinct)
ListFile ==
  /\ pcBatch = "listing"
  /\ Len(input_dir) < MaxBatch
  /\ \E f \in InputNames \ SeqToSet(input_dir) : input_dir' = Append(input_dir, f)
  /\ UNCHANGED <<pdf_files, filePos, extraction, output_dir, save_failed, pcBatch>>
  /\ UNCHANGED <<varsOutline, varsHeading, varsStats, varsRank, varsPersona, varsFlow, varsSegment, varsLine, varsOutput, varsTitle, varsLevel, varsScoring>>

\* pdf_files = [f for f in os.listdir(input_dir) if f.endswith('.pdf')]
ListPdfFiles ==
  /\ pcBatch = "listing"
  /\ pdf_files' = PdfFilesOf(input_dir)
  /\ filePos' = 1
  /\ pcBatch' = "batch"
  /\ UNCHANGED <<input_dir, extraction, output_dir, save_failed>>
  /\ UNCHANGED <<varsOutline, varsHeading, varsStats, varsRank, varsPersona, varsFlow, varsSegment, varsLine, varsOutput, varsTitle, varsLevel, varsScoring>>

\* one iteration of "for pdf_file in pdf_files": extract and save; on any
\* exception of the two, save the fallback; an exception of that second save
\* leaves the loop and process_all_pdfs
ProcessFile ==
  /\ pcBatch = "batch"
  /\ filePos <= Len(pdf_files)
  /\ \E x \in ExtractionOutcomes, saved \in BOOLEAN, fallback_saved \in BOOLEAN :
       LET output_path == OutputFile(pdf_files[filePos])
       IN  /\ extraction' = Append(extraction, x)
           /\ IF ~x.raised /\ saved
                THEN /\ output_dir' = SaveJsonResult(output_dir, output_path, x.result)
                     /\ filePos' = filePos + 1
                     /\ UNCHANGED <<save_failed, pcBatch>>
              ELSE IF fallback_saved
                THEN /\ output_dir' =
                          SaveJsonResult(output_dir, output_path, FallbackResult)
                     /\ filePos' = filePos + 1
                     /\ save_failed' = (save_failed \/ ~x.raised)
                     /\ UNCHANGED pcBatch
              ELSE /\ pcBatch' = "crashed"
                   /\ save_failed' = TRUE
                   /\ UNCHANGED <<output_dir, filePos>>
  /\ UNCHANGED <<input_dir, pdf_files>>
  /\ UNCHANGED <<varsOutline, varsHeading, varsStats, varsRank, varsPersona, varsFlow, varsSegment, varsLine, varsOutput, varsTitle, varsLevel, varsScoring>>

\* the loop is over
FinishBatch ==
  /\ pcBatch = "batch"
  /\ filePos > Len(pdf_files)
  /\ pcBatch' = "done"
  /\ UNCHANGED <<input_dir, pdf_files, filePos, extraction, output_dir, save_failed>>
  /\ UNCHANGED <<varsOutline, varsHeading, varsStats, varsRank, varsPersona, varsFlow, varsSegment, varsLine, varsOutput, varsTitle, varsLevel, varsScoring>>

NextBatchA == ListFile \/ ListPdfFiles \/ ProcessFile \/ FinishBatch

SpecBatchA == InitBatch /\ [][NextBatchA]_vars

\* the result file of a PDF: its name with the final ".pdf" turned into ".json"
ResultFileOf(pdf_file) == SubSeq(pdf_file, 1, Len(pdf_file) - 4) \o Ext_json

\* C5: when process_all_pdfs is over and no save has failed, every PDF of the
\* batch has its result file, holding what its extraction returned, or the
\* fallback when its extraction raised.
C5_EachPdfHasItsResult ==
  (pcBatch = "done" /\ ~save_failed) =>
    \A i \in 1..Len(pdf_files) :
      \E f \in DOMAIN output_dir :
        /\ f \in {ResultFileOf(pdf_files[i]), OutputFile(pdf_files[i])}
        /\ output_dir[f] = IF extraction[i].raised THEN FallbackResult
                           ELSE extraction[i].result

\* an extraction failure never ends the batch: while no save fails, every
\* PDF of the batch is processed
C5_BatchContinues ==
  ~save_failed => pcBatch # "crashed"

\* the output names of the PDFs of the batch are pairwise different
DistinctOutputNames ==
  \A i, j \in 1..Len(pdf_files) :
    OutputFile(pdf_files[i]) = OutputFile(pdf_files[j]) => i = j

\* with pairwise different output names, every PDF has its result
C5_HoldsForDistinctOutputNames ==
  (pcBatch = "done" /\ ~save_failed /\ DistinctOutputNames) =>
    \A i \in 1..Len(pdf_files) :
      /\ OutputFile(pdf_files[i]) \in DOMAIN output_dir
      /\ output_dir[OutputFile(pdf_files[i])] =
           IF extraction[i].raised THEN FallbackResult ELSE extraction[i].result

----------------------------------------------------------------------------
(* Flow B: one run of process_document_collection                          *)

MaxListed == 3         \* names in the configuration or the input directory

ListedNames ==
  { <<"a",".","p","d","f">>,
    <<"b",".","p","d","f">>,
    <<"c",".","p","d","f">>,
    <<"d",".","P","D","F">> }

ConfigPersona == <<"P","h","D"," ","R","e","s","e","a","r","c","h","e","r">>
ConfigJob == <<"P","r","e","p","a","r","e"," ","a"," ","l","i","t","e","r","a","t","u","r","e"," ","r","e","v","i","e","w">>

Section(doc_name, title, content, page, section_type) ==
  [title |-> title, content |-> content, document |-> doc_name, page |-> page,
   section_type |-> section_type]

\* what extract_document_sections may return for a document: the segmenter is
\* a function of the content, which is not represented
SectionLists(doc_name) ==
  { <<>>,
    <<Section(doc_name, <<"I","n","t","r","o","d","u","c","t","i","o","n">>, <<"W","e"," ","s","t","u","d","y"," ","t","h","i","n","g","s"," ">>, 0, "introduction"),
      Section(doc_name, <<"R","e","s","u","l","t","s">>, <<"A","c","c","u","r","a","c","y"," ","i","s"," ","4","2","%"," ">>, 1, "results")>> }

\* the scores calculate_relevance_score may give, in hundredths, to the
\* sections at odd and at even positions
ScoreTables == { <<90, 20>>, <<50, 50>> }

InitFlow ==
  /\ IdleOutline /\ IdleHeading /\ IdleStats /\ IdleRank /\ IdlePersona /\ IdleBatch /\ IdleSegment /\ IdleLine /\ IdleOutput /\ IdleTitle /\ IdleLevel /\ IdleScoring
  /\ listed = <<>>
  /\ config = NoConfig
  /\ config_source = "file"
  /\ docPos = 0
  /\ doc_status = <<>>
  /\ documents = <<>>
  /\ segPos = 0
  /\ all_sections = <<>>
  /\ result = <<>>
  /\ output_file = <<>>
  /\ raised = FALSE
  /\ pcFlow = "input"

UnchangedByFlow ==
  /\ UNCHANGED <<persona, pcPersona, docIndex, pcRank>>
  /\ UNCHANGED <<varsOutline, varsHeading, varsStats, varsBatch, varsSegment, varsLine, varsOutput, varsTitle, varsLevel, varsScoring>>

\* one more name in the list (the names are pairwise different)
ListDocument ==
  /\ pcFlow = "input"
  /\ Len(listed) < MaxListed
  /\ \E n \in ListedNames \ SeqToSet(listed) : listed' = Append(listed, n)
  /\ UNCHANGED <<config, config_source, docPos, doc_status, documents, segPos,
                 all_sections, result, output_file, raised, pcFlow>>
  /\ UNCHANGED <<persona_profile, scored_sections, selected_sections>>
  /\ UnchangedByFlow

\* config = self.load_configuration(input_dir)
LoadConfiguration ==
  /\ pcFlow = "input"
  /\ \E src \in {"file", "default"} :
       /\ config_source' = src
       /\ config' = IF src = "file"
                      THEN ConfigFromFile(listed, ConfigPersona, ConfigJob)
                      ELSE DefaultConfig(listed)
  /\ docPos' = 1
  /\ pcFlow' = "extract"
  /\ UNCHANGED <<listed, doc_status, documents, segPos, all_sections, result,
                 output_file, raised>>
  /\ UNCHANGED <<persona_profile, scored_sections, selected_sections>>
  /\ UnchangedByFlow

\* extract_documents: one iteration of "for doc_name in document_list"; a
\* file of the default configuration was found in the directory listing
ExtractDocument ==
  /\ pcFlow = "extract"
  /\ docPos <= Len(config.documents)
  /\ \E status \in IF config_source = "file"
                     THEN {"missing", "unreadable", "readable"}
                     ELSE {"unreadable", "readable"} :
       /\ doc_status' = Append(doc_status, status)
       /\ documents' = ExtractedDocuments(documents, config.documents[docPos], status)
  /\ docPos' = docPos + 1
  /\ UNCHANGED <<listed, config, config_source, segPos, all_sections, result,
                 output_file, raised, pcFlow>>
  /\ UNCHANGED <<persona_profile, scored_sections, selected_sections>>
  /\ UnchangedByFlow

\* persona_profile = self.persona_analyzer.create_persona_profile(...)
ProfilePersona ==
  /\ pcFlow = "extract"
  /\ docPos > Len(config.documents)
  /\ persona_profile' =
       create_persona_profile(config.persona, config.job_to_be_done)
  /\ segPos' = 1
  /\ pcFlow' = "segment"
  /\ UNCHANGED <<listed, config, config_source, docPos, doc_status, documents,
                 all_sections, result, output_file, raised>>
  /\ UNCHANGED <<scored_sections, selected_sections>>
  /\ UnchangedByFlow

\* doc_sections = extract_document_sections(doc);
\* all_sections.extend(doc_sections)
SegmentDocument ==
  /\ pcFlow = "segment"
  /\ segPos <= Len(documents)
  /\ \E doc_sections \in SectionLists(documents[segPos].name) :
       all_sections' = all_sections \o doc_sections
  /\ segPos' = segPos + 1
  /\ UNCHANGED <<listed, config, config_source, docPos, doc_status, documents,
                 result, output_file, raised, pcFlow>>
  /\ UNCHANGED <<persona_profile, scored_sections, selected_sections>>
  /\ UnchangedByFlow

\* scored_sections = self.relevance_scorer.score_sections(all_sections, ...):
\* every section, in order, with a relevance_score added
ScoreSections ==
  /\ pcFlow = "segment"
  /\ segPos > Len(documents)
  /\ \E table \in ScoreTables :
       scored_sections' =
         [i \in 1..Len(all_sections) |->
            [relevance_score |-> <<table[((i - 1) % Len(table)) + 1], 100>>]
              @@ all_sections[i]]
  /\ pcFlow' = "rank"
  /\ UNCHANGED <<listed, config, config_source, docPos, doc_status, documents,
                 segPos, all_sections, result, output_file, raised>>
  /\ UNCHANGED <<persona_profile, selected_sections>>
  /\ UnchangedByFlow

\* selected_sections = self.section_ranker.rank_and_select(scored_sections)
RankSections ==
  /\ pcFlow = "rank"
  /\ selected_sections' = rank_and_select(scored_sections)
  /\ pcFlow' = "generate"
  /\ UNCHANGED <<listed, config, config_source, docPos, doc_status, documents,
                 segPos, all_sections, result, output_file, raised>>
  /\ UNCHANGED <<persona_profile, scored_sections>>
  /\ UnchangedByFlow

\* result = self.generate_output(config, selected_sections)
GenerateOutput ==
  /\ pcFlow = "generate"
  /\ result' = <<generate_output(config, selected_sections)>>
  /\ pcFlow' = "save"
  /\ UNCHANGED <<listed, config, config_source, docPos, doc_status, documents,
                 segPos, all_sections, output_file, raised>>
  /\ UNCHANGED <<persona_profile, scored_sections, selected_sections>>
  /\ UnchangedByFlow

\* self.save_output(result, output_path): the file is written, or open()
\* raises and the except clause is entered
SaveOutput ==
  /\ pcFlow = "save"
  /\ \E written \in BOOLEAN :
       IF written
         THEN /\ output_file' = result
              /\ pcFlow' = "done"
              /\ UNCHANGED raised
         ELSE /\ raised' = TRUE
              /\ pcFlow' = "handler"
              /\ UNCHANGED output_file
  /\ UNCHANGED <<listed, config, config_source, docPos, doc_status, documents,
                 segPos, all_sections, result>>
  /\ UNCHANGED <<persona_profile, scored_sections, selected_sections>>
  /\ UnchangedByFlow

\* the step the try block is about to take raises an Exception
StepRaises ==
  /\ pcFlow \in {"input", "extract", "segment", "rank", "generate"}
  /\ pcFlow = "extract" => docPos > Len(config.documents)
  /\ raised' = TRUE
  /\ pcFlow' = "handler"
  /\ UNCHANGED <<listed, config, config_source, docPos, doc_status, documents,
                 segPos, all_sections, result, output_file>>
  /\ UNCHANGED <<persona_profile, scored_sections, selected_sections>>
  /\ UnchangedByFlow

\* except Exception: fallback = self.create_fallback_output();
\* self.save_output(fallback, output_path): the file is written, or open()
\* raises again and the exception leaves process_document_collection
SaveFallback ==
  /\ pcFlow = "handler"
  /\ \E written \in BOOLEAN :
       IF written
         THEN /\ output_file' = <<create_fallback_output>>
              /\ pcFlow' = "done"
         ELSE /\ pcFlow' = "aborted"
              /\ UNCHANGED output_file
  /\ UNCHANGED <<listed, config, config_source, docPos, doc_status, documents,
                 segPos, all_sections, result, raised>>
  /\ UNCHANGED <<persona_profile, scored_sections, selected_sections>>
  /\ UnchangedByFlow

NextFlowB ==
  \/ ListDocument \/ LoadConfiguration \/ ExtractDocument \/ ProfilePersona
  \/ SegmentDocument \/ ScoreSections \/ RankSections \/ GenerateOutput
  \/ SaveOutput \/ StepRaises \/ SaveFallback

SpecFlowB == InitFlow /\ [][NextFlowB]_vars

\* the run is over: process_document_collection has returned, or an exception
\* has left it
FlowEnded == pcFlow \in {"done", "aborted"}

\* C6: whichever step raises, the run does not abort: it ends with the result
\* file written, holding the normal collection result or the fallback result.
C6_EndsWithResultFile ==
  FlowEnded =>
    /\ pcFlow = "done"
    /\ Len(output_file) = 1
    /\ output_file = result \/ output_file = <<create_fallback_output>>

\* a run that returns has written the result file: the fallback when a step
\* has raised, the normal result otherwise
C6_ReturnedRunHasResultFile ==
  pcFlow = "done" =>
    output_file = IF raised THEN <<create_fallback_output>> ELSE result

\* an exception leaves process_document_collection only when the save of the
\* fallback raises
C6_AbortOnlyInHandler ==
  [][pcFlow' = "aborted" => pcFlow = "handler" /\ UNCHANGED output_file]_vars

NamesOf(docs) == [i \in 1..Len(docs) |-> docs[i].name]

\* the status found for a listed document the loop has been through
StatusOf(doc_name) ==
  doc_status[CHOOSE i \in 1..Len(doc_status) : config.documents[i] = doc_name]

\* the listed documents the loop has been through
LoopedNames == SubSeq(config.documents, 1, Len(doc_status))

DocumentFieldsOf(sections) == {sections[i].document : i \in 1..Len(sections)}

\* no section, at any stage, is of a document that was not collected; once
\* the segment and score steps are over every collected document has been
\* segmented and every section scored; without a raise of a step the handler
\* is not entered and the fallback is not written
SectionsOnlyOfCollected ==
  /\ DocumentFieldsOf(all_sections) \subseteq SeqToSet(NamesOf(documents))
  /\ DocumentFieldsOf(scored_sections) \subseteq SeqToSet(NamesOf(documents))
  /\ DocumentFieldsOf(selected_sections) \subseteq SeqToSet(NamesOf(documents))
  /\ \A i \in 1..Len(output_file) :
       DocumentFieldsOf(output_file[i].extracted_sections)
         \subseteq SeqToSet(NamesOf(documents))
  /\ (pcFlow \in {"rank", "generate", "save"} \/ (pcFlow = "done" /\ ~raised)) =>
       /\ segPos = Len(documents) + 1
       /\ Len(scored_sections) = Len(all_sections)
       /\ \A i \in 1..Len(all_sections) :
            /\ scored_sections[i].title = all_sections[i].title
            /\ scored_sections[i].document = all_sections[i].document
  /\ ~raised =>
       /\ pcFlow \notin {"handler", "aborted"}
       /\ output_file # <<create_fallback_output>>

\* C7 as stated: the documents collected are the listed documents whose file
\* is there and whose extraction does not fail, and only they contribute
\* sections; a failing document does not trigger the fallback.
C7_EveryOtherDocumentCollected ==
  /\ NamesOf(documents) =
       SelectSeq(LoopedNames, LAMBDA n : StatusOf(n) = "readable")
  /\ SectionsOnlyOfCollected

\* C7: the documents collected are the listed documents whose name ends with
\* ".pdf", whose file is there and whose extraction does not fail, in the
\* order of the list; a missing or failing document is left out, contributes
\* no section, and does not trigger the fallback.
C7_FailedDocumentOmitted ==
  /\ NamesOf(documents) =
       SelectSeq(LoopedNames,
                 LAMBDA n : StatusOf(n) = "readable" /\ EndsWith(n, Ext_pdf))
  /\ SectionsOnlyOfCollected

\* a run with a missing document, an unreadable one and a readable one after
\* them, which ends with a section of the readable one in the normal result
C7_Witness ==
  /\ pcFlow = "done"
  /\ ~raised
  /\ Len(doc_status) = 3
  /\ doc_status[1] = "missing"
  /\ doc_status[2] = "unreadable"
  /\ doc_status[3] = "readable"
  /\ Len(output_file) = 1
  /\ Len(output_file[1].extracted_sections) >= 1
  /\ output_file[1].extracted_sections[1].document = config.documents[3]

----------------------------------------------------------------------------
(* More on the outline post-processor (SpecOutline)                        *)

\* the keys of the candidates, in order
KeysOf(items) == [i \in 1..Len(items) |-> DedupKey(items[i])]

\* the position of the first candidate with the key
FirstOccurrence(keys, key) ==
  CHOOSE i \in 1..Len(keys) :
    keys[i] = key /\ \A j \in 1..(i - 1) : keys[j] # key

\* the keys of the candidates of page p other than key
OtherKeysOnPage(keys, p, key) ==
  {keys[j] : j \in EntriesOnPage(outline, p)} \ {key}

\* the entries returned with the key
ReturnedWithKey(key) ==
  {k \in 1..Len(filtered_outline) : DedupKey(filtered_outline[k]) = key}

\* candidate i repeats the key of an earlier one, where that earlier one is
\* a heading candidate (0.7 or more) on a page with fewer than 5 other keys
RepeatedOnQuietPage(keys, i) ==
  /\ FirstOccurrence(keys, keys[i]) < i
  /\ outline[FirstOccurrence(keys, keys[i])].confidence >= 70
  /\ Cardinality(OtherKeysOnPage(keys, outline[i].page, keys[i])) < 5

\* every entry returned is the first candidate of its key
OnlyFirstOccurrences(keys) ==
  \A k \in 1..Len(filtered_outline) :
    filtered_outline[k] =
      outline[FirstOccurrence(keys, DedupKey(filtered_outline[k]))]

\* C15 as stated: only the first candidate of a key can be returned, and a
\* text repeated on a page with fewer than 5 other entries gives exactly one
\* entry.
C15_RepeatedTextGivesOneEntry ==
  pcOutline = "processed" =>
    LET keys == KeysOf(outline)
    IN  /\ OnlyFirstOccurrences(keys)
        /\ \A i \in 1..Len(outline) :
             RepeatedOnQuietPage(keys, i) =>
               Cardinality(ReturnedWithKey(keys[i])) = 1

\* C15: only the first candidate of a key can be returned, whatever the
\* confidence and level of the later ones; a text repeated on a page with
\* fewer than 5 other entries gives exactly one entry when no more than 20
\* entries pass the per-page filter, and at most one otherwise.
C15_FirstOccurrenceWins ==
  pcOutline = "processed" =>
    LET keys == KeysOf(outline)
    IN  /\ OnlyFirstOccurrences(keys)
        /\ \A i \in 1..Len(outline) :
             RepeatedOnQuietPage(keys, i) =>
               /\ Cardinality(ReturnedWithKey(keys[i])) <= 1
               /\ Len(PerPageFiltered(outline)) <= 20 =>
                    Cardinality(ReturnedWithKey(keys[i])) = 1

\* a text repeated on a quiet page, the repeat with a higher confidence and
\* another level, and the first candidate is the one returned
C15_Witness ==
  /\ pcOutline = "processed"
  /\ \E i \in 1..Len(outline) :
       LET keys == KeysOf(outline)
           first == outline[FirstOccurrence(keys, keys[i])]
       IN  /\ RepeatedOnQuietPage(keys, i)
           /\ outline[i].confidence > first.confidence
           /\ outline[i].level # first.level
           /\ \E k \in 1..Len(filtered_outline) : filtered_outline[k] = first

\* the entries of those that passed the per-page filter which the global
\* truncation removed
RemovedByGlobalLimit(passed) == SeqToSet(passed) \ SeqToSet(filtered_outline)

\* C16: the outline returned is in ascending page order, every entry has a
\* confidence of 0.7 or more, and when more than 20 entries pass the per-page
\* filter, 20 are returned and none that was removed has a confidence
\* strictly greater than one that is kept.
C16_PageOrderAndBestTwenty ==
  pcOutline = "processed" =>
    LET passed == PerPageFiltered(outline)
    IN  /\ \A i \in 1..(Len(filtered_outline) - 1) :
             filtered_outline[i].page <= filtered_outline[i + 1].page
        /\ \A i \in 1..Len(filtered_outline) :
             filtered_outline[i].confidence >= 70
        /\ Len(passed) > 20 =>
             /\ Len(filtered_outline) = 20
             /\ \A r \in RemovedByGlobalLimit(passed) :
                  \A k \in 1..Len(filtered_outline) :
                    r.confidence <= filtered_outline[k].confidence

\* more than 20 entries pass the per-page filter, and one that is removed has
\* a lower page than one that is kept
C16_Witness ==
  /\ pcOutline = "processed"
  /\ Len(PerPageFiltered(outline)) > 20
  /\ \E r \in RemovedByGlobalLimit(PerPageFiltered(outline)) :
       \E k \in 1..Len(filtered_outline) :
         /\ r.page < filtered_outline[k].page
         /\ r.confidence < filtered_outline[k].confidence

----------------------------------------------------------------------------
(* More on the ranker (SpecRank)                                           *)

\* the position in the scored list of the section with this title
InputPosition(title) ==
  CHOOSE k \in 1..Len(scored_sections) : scored_sections[k].title = title

\* C19: the sections returned carry the ranks 1..n in returned order, their
\* scores do not increase with the rank, and of two returned sections of equal
\* score the one earlier in the input comes first.
C19_RanksAndOrder ==
  pcRank = "ranked" =>
    /\ \A i \in 1..Len(selected_sections) : selected_sections[i].rank = i
    /\ \A i, j \in 1..Len(selected_sections) :
         i < j =>
           /\ ~ScoreLess(selected_sections[i].relevance_score,
                         selected_sections[j].relevance_score)
           /\ selected_sections[i].relevance_score
                = selected_sections[j].relevance_score
              => InputPosition(selected_sections[i].title)
                   < InputPosition(selected_sections[j].title)

\* at least 3 sections returned, two of them of equal score, and one that
\* comes later in the input is ranked before an earlier one
C19_Witness ==
  /\ pcRank = "ranked"
  /\ Len(selected_sections) >= 3
  /\ \E i, j \in 1..Len(selected_sections) :
       /\ i < j
       /\ selected_sections[i].relevance_score
            = selected_sections[j].relevance_score
  /\ \E i, j \in 1..Len(selected_sections) :
       /\ i < j
       /\ InputPosition(selected_sections[i].title)
            > InputPosition(selected_sections[j].title)

----------------------------------------------------------------------------
(* The segmenter on the pages of one document                              *)

MaxDocElements == 4    \* elements of the document
MaxDocPages == 2       \* pages of the document

PageElement(t, size, bold) == [text |-> t, avg_size |-> size, is_bold |-> bold]

\* lines as extract_pdf_content gives them: text stripped and not empty
SegmentElements ==
  { PageElement(<<"M","E","T","H","O","D","S">>,
                10, FALSE),
    PageElement(<<"w","e"," ","m","e","a","s","u","r","e","d"," ","4","2"," ","s","a","m","p","l","e","s",".">>,
                10, FALSE),
    PageElement(<<"R","e","s","u","l","t","s",":">>,
                16, FALSE),
    PageElement(<<"3",".","1"," ","S","e","t","u","p">>,
                11, FALSE) }

SegmentDocName == <<"d","o","c",".","p","d","f">>

InitSegment ==
  /\ IdleOutline /\ IdleHeading /\ IdleStats /\ IdleRank /\ IdlePersona /\ IdleBatch /\ IdleFlow /\ IdleLine /\ IdleOutput /\ IdleTitle /\ IdleLevel /\ IdleScoring
  /\ pages_content = <<[page_num |-> 0, elements |-> <<>>]>>
  /\ returned_sections = <<>>
  /\ pcSegment = "extract"

\* extract_pdf_content: page_elements.append(...) on the current page
AddPageElement ==
  /\ pcSegment = "extract"
  /\ Len(AllElements(pages_content)) < MaxDocElements
  /\ \E e \in SegmentElements :
       pages_content' =
         [pages_content EXCEPT ![Len(pages_content)].elements = Append(@, e)]
  /\ UNCHANGED <<returned_sections, pcSegment>>
  /\ UNCHANGED <<varsOutline, varsHeading, varsStats, varsRank, varsPersona, varsBatch, varsFlow, varsLine, varsOutput, varsTitle, varsLevel, varsScoring>>

\* extract_pdf_content: pages_content.append(...), the next page begins
AddPage ==
  /\ pcSegment = "extract"
  /\ Len(pages_content) < MaxDocPages
  /\ pages_content' =
       Append(pages_content, [page_num |-> Len(pages_content), elements |-> <<>>])
  /\ UNCHANGED <<returned_sections, pcSegment>>
  /\ UNCHANGED <<varsOutline, varsHeading, varsStats, varsRank, varsPersona, varsBatch, varsFlow, varsLine, varsOutput, varsTitle, varsLevel, varsScoring>>

\* doc_sections = self.document_processor.extract_document_sections(doc)
SegmentPages ==
  /\ pcSegment = "extract"
  /\ returned_sections' = extract_document_sections(SegmentDocName, pages_content)
  /\ pcSegment' = "segmented"
  /\ UNCHANGED pages_content
  /\ UNCHANGED <<varsOutline, varsHeading, varsStats, varsRank, varsPersona, varsBatch, varsFlow, varsLine, varsOutput, varsTitle, varsLevel, varsScoring>>

NextSegment == AddPageElement \/ AddPage \/ SegmentPages

SpecSegment == InitSegment /\ [][NextSegment]_vars

\* the lines of the document in reading order, each with its page and with
\* what is_section_heading says of it
RECURSIVE LinesOf(_, _)
LinesOf(pages, doc_analysis) ==
  IF pages = <<>> THEN <<>>
  ELSE [j \in 1..Len(pages[1].elements) |->
          [text |-> Strip(pages[1].elements[j].text),
           page |-> pages[1].page_num,
           heading |-> is_section_heading(pages[1].elements[j], doc_analysis)]]
       \o LinesOf(Tail(pages), doc_analysis)

DocLines == LinesOf(pages_content, analyze_document_structure(pages_content))

\* the position of the nearest heading at or before line i, 0 when there is none
RECURSIVE HeadingBefore(_, _)
HeadingBefore(lines, i) ==
  IF i = 0 THEN 0
  ELSE IF lines[i].heading THEN i
  ELSE HeadingBefore(lines, i - 1)

\* the body lines under a heading: not headings, and after some heading
BodyPositions(lines) ==
  {i \in 1..Len(lines) : ~lines[i].heading /\ HeadingBefore(lines, i) > 0}

\* the headings with a body line right after them
OpeningPositions(lines) ==
  {h \in 1..Len(lines) :
     lines[h].heading /\ h < Len(lines) /\ ~lines[h + 1].heading}

\* the number of elements of a set of positions that are below i
RankAmong(S, i) == Cardinality({j \in S : j <= i})

\* the elements of a set of positions in ascending order
Ascending(S) ==
  [k \in 1..Cardinality(S) |-> CHOOSE i \in S : RankAmong(S, i) = k]

RECURSIVE TotalLength(_, _)
TotalLength(lines, positions) ==
  IF positions = <<>> THEN 0
  ELSE Len(lines[positions[1]].text) + 1 + TotalLength(lines, Tail(positions))

RECURSIVE ContentLength(_)
ContentLength(sections) ==
  IF sections = <<>> THEN 0
  ELSE Len(sections[1].content) + ContentLength(Tail(sections))

\* C12: every section extract_document_sections returns has a content that is
\* not empty after trimming; a heading directly followed by another heading or
\* by the end of the document gives no section, so the sections are those of
\* the headings with a body line right after them; and the lines before the
\* first heading are in no section: the contents hold as many characters as
\* the body lines after the first heading, each with its separating space
C12_NoEmptySection ==
  pcSegment = "segmented" =>
    LET lines == DocLines
        opening == Ascending(OpeningPositions(lines))
    IN  /\ \A k \in 1..Len(returned_sections) :
             Strip(returned_sections[k].content) # <<>>
        /\ Len(returned_sections) = Len(opening)
        /\ \A k \in 1..Len(opening) :
             returned_sections[k].title = lines[opening[k]].text
        /\ ContentLength(returned_sections)
             = TotalLength(lines, Ascending(BodyPositions(lines)))

\* a document that begins with a body line, has a heading directly followed by
\* another heading, and gives a section
C12_Witness ==
  /\ pcSegment = "segmented"
  /\ returned_sections # <<>>
  /\ LET lines == DocLines
     IN  /\ ~lines[1].heading
         /\ \E h \in 1..(Len(lines) - 1) : lines[h].heading /\ lines[h + 1].heading

RECURSIVE ConcatTexts(_, _)
ConcatTexts(lines, positions) ==
  IF positions = <<>> THEN <<>>
  ELSE lines[positions[1]].text \o <<" ">> \o ConcatTexts(lines, Tail(positions))

RECURSIVE ConcatContents(_)
ConcatContents(sections) ==
  IF sections = <<>> THEN <<>>
  ELSE sections[1].content \o ConcatContents(Tail(sections))

\* the body lines between the heading at h and the next heading
BodyUnder(lines, h) ==
  {i \in 1..Len(lines) : ~lines[i].heading /\ HeadingBefore(lines, i) = h}

\* C20: the segmenter loses and repeats no body text after the first heading:
\* the contents of the returned sections, concatenated in output order, are
\* the texts of the lines that are not headings and follow the first heading,
\* each once and in document order (each followed by a space); a section has
\* the title and the page of the nearest heading before its text, and the
\* sections are in document order
C20_BodyTextPreserved ==
  pcSegment = "segmented" =>
    LET lines == DocLines
        opening == Ascending(OpeningPositions(lines))
    IN  /\ ConcatContents(returned_sections)
             = ConcatTexts(lines, Ascending(BodyPositions(lines)))
        /\ Len(returned_sections) = Len(opening)
        /\ \A k \in 1..Len(returned_sections) :
             /\ returned_sections[k].title = lines[opening[k]].text
             /\ returned_sections[k].page = lines[opening[k]].page
             /\ returned_sections[k].content
                  = ConcatTexts(lines, Ascending(BodyUnder(lines, opening[k])))
        /\ \A k \in 1..(Len(opening) - 1) : opening[k] < opening[k + 1]

\* two sections with different contents come out, from headings on different
\* pages
C20_Witness ==
  /\ pcSegment = "segmented"
  /\ Len(returned_sections) = 2
  /\ returned_sections[1].page # returned_sections[2].page
  /\ returned_sections[1].content # returned_sections[2].content

----------------------------------------------------------------------------
(* The heading test of the segmenter on one line                           *)

LineTexts ==
  { <<"s","e","e"," ","b","e","l","o","w">>,
    <<"1","."," ","i","n","t","r","o">>,
    <<"1","."," ","I","n","t","r","o">>,
    <<"M","E","T","H","O","D","S">>,
    <<"R","E","L","A","T","E","D"," ","W","O","R","K">>,
    <<"I","n","t","r","o","d","u","c","t","i","o","n">>,
    <<"c","o","n","c","l","u","s","i","o","n">>,
    <<"3",".","1"," ","S","e","t","u","p">>,
    <<"w","e"," ","m","e","a","s","u","r","e","d"," ","4","2"," ","s","a","m","p","l","e","s",".">>,
    <<"N","o","t","e",":">>,
    <<"w","1",","," ","w","2",","," ","w","3",","," ","w","4",","," ","w","5",","," ","w","6",","," ","w","7",","," ","w","8",","," ","w","9",","," ","w","1","0",","," ","w","1","1",","," ","w","1","2",","," ","w","1","3",","," ","w","1","4",","," ","w","1","5",",">>,
    <<"w","1",","," ","w","2",","," ","w","3",","," ","w","4",","," ","w","5",","," ","w","6",","," ","w","7",","," ","w","8",","," ","w","9",","," ","w","1","0",","," ","w","1","1",","," ","w","1","2",","," ","w","1","3",","," ","w","1","4",","," ","w","1","5",","," ","w","1","6",",">>,
    <<"1","2"," ","a","p","p","l","e","s">>,
    <<"1",".","I","n","t","r","o">>,
    <<"A">>,
    <<"H","e","l","l","o",","," ","w","o","r","l","d">> }

LineSizes == {10, 12, 14}

\* the size of the body lines of the document the line is in
BodySizes == {10, 12}

\* a document of two body lines of one size and the line under test
DocumentAround(e, body_size) ==
  <<[page_num |-> 0,
     elements |-> <<PageElement(<<"b","o","d","y"," ","t","e","x","t",".">>, body_size, FALSE),
                    PageElement(<<"b","o","d","y"," ","t","e","x","t",".">>, body_size, FALSE), e>>]>>

InitLine ==
  /\ IdleOutline /\ IdleHeading /\ IdleStats /\ IdleRank /\ IdlePersona /\ IdleBatch /\ IdleFlow /\ IdleSegment /\ IdleOutput /\ IdleTitle /\ IdleLevel /\ IdleScoring
  /\ line_elem \in {PageElement(t, size, bold) :
                      t \in LineTexts, size \in LineSizes, bold \in BOOLEAN}
  /\ line_analysis \in {analyze_document_structure(DocumentAround(line_elem, b)) :
                          b \in BodySizes}
  /\ heading_verdict = FALSE
  /\ pcLine = "test"

\* if self.is_section_heading(elem, doc_analysis)
TestLine ==
  /\ pcLine = "test"
  /\ heading_verdict' = is_section_heading(line_elem, line_analysis)
  /\ pcLine' = "tested"
  /\ UNCHANGED <<line_elem, line_analysis>>
  /\ UNCHANGED <<varsOutline, varsHeading, varsStats, varsRank, varsPersona, varsBatch, varsFlow, varsSegment, varsOutput, varsTitle, varsLevel, varsScoring>>

NextLine == TestLine

SpecLine == InitLine /\ [][NextLine]_vars

\* digits, an optional dot, whitespace, then an uppercase letter
NumberedStartUpper(text) ==
  LET a == SkipRun(text, 1, DigitSet)
      b == SkipDot(text, a)
  IN  /\ a > 1
      /\ At(text, b, SpaceSet)
      /\ At(text, SkipRun(text, b, SpaceSet), UpperSet)

\* a line of uppercase letters and whitespace only
AllCapsLine(text) ==
  /\ Len(text) >= 2
  /\ text[1] \in UpperSet
  /\ \A i \in 2..Len(text) : text[i] \in UpperSet \cup SpaceSet

\* the rules of the heading test with the two letter patterns taken in upper
\* case only
ListedRules(e, doc_analysis) ==
  LET text == Strip(e.text)
  IN  \/ 10 * e.avg_size >= doc_analysis.heading_threshold
      \/ e.is_bold /\ Len(Split(text)) <= 15
      \/ NumberedStartUpper(text)
      \/ AllCapsLine(text)
      \/ MatchKeywordLine(text)

\* C13: is_section_heading is true exactly when the size is at or above the
\* heading threshold, or the line is bold with at most 15 words, or it starts
\* with a number followed by an uppercase letter, or it is an all-caps line,
\* or it is one of the keywords in any case; so a line of lowercase words, or
\* a numbered line whose first word starts in lower case, that is not bold and
\* below the threshold is not a heading
C13_HeadingIffListedRules ==
  pcLine = "tested" =>
    (heading_verdict <=> ListedRules(line_elem, line_analysis))

\* the listed rules are enough for a heading: each of them makes
\* is_section_heading true
C13_ListedRulesSuffice ==
  pcLine = "tested" =>
    (ListedRules(line_elem, line_analysis) => heading_verdict)

\* a line taken for a heading that no listed rule covers is a line that is not
\* bold or longer than 15 words, below the threshold, and made of letters and
\* spaces or numbered with a letter after the number
C13_OtherHeadingsAreLetterLines ==
  pcLine = "tested" /\ heading_verdict /\ ~ListedRules(line_elem, line_analysis) =>
    \/ MatchCapsLine(Strip(line_elem.text))
    \/ MatchNumberedStart(Strip(line_elem.text))

\* a lowercase line, not bold and below the threshold, has been tested
C13_LowercaseLineTested ==
  /\ pcLine = "tested"
  /\ ~line_elem.is_bold
  /\ 10 * line_elem.avg_size < line_analysis.heading_threshold
  /\ Lower(line_elem.text) = line_elem.text
  /\ heading_verdict

----------------------------------------------------------------------------
(* From the segmented documents to the collection result                   *)

MaxOutDocs == 3    \* documents of the collection

\* a page with a heading and one body line under it
HeadedPage(n, title, body) ==
  [page_num |-> n,
   elements |-> <<PageElement(title, 10, FALSE), PageElement(body, 10, FALSE)>>]

\* a body line of n characters that is no heading, and one that ends in "..."
LongLine(n) == Repeat("7", n)
DottedLine(n) == Repeat("7", n - 3) \o <<".", ".", ".">>

\* the pages of the documents of the collection; the contents of their
\* sections have 500, 501, 4, 500, 501 and 7 characters
OutputDocuments ==
  { <<HeadedPage(0, <<"M","E","T","H","O","D","S">>, LongLine(RefinedTextLimit - 1)),
      HeadedPage(1, <<"R","E","S","U","L","T","S">>, LongLine(RefinedTextLimit)),
      HeadedPage(2, <<"D","I","S","C","U","S","S","I","O","N">>, <<"o","k",".">>)>>,
    <<HeadedPage(0, <<"M","E","T","H","O","D","S">>, DottedLine(RefinedTextLimit - 1)),
      HeadedPage(1, <<"R","E","S","U","L","T","S">>, DottedLine(RefinedTextLimit))>>,
    <<HeadedPage(0, <<"S","U","M","M","A","R","Y">>, <<"e","t","c",".",".",".">>)>> }

InitOutput ==
  /\ IdleOutline /\ IdleHeading /\ IdleStats /\ IdleRank /\ IdlePersona /\ IdleBatch /\ IdleFlow /\ IdleSegment /\ IdleLine /\ IdleTitle /\ IdleLevel /\ IdleScoring
  /\ segmented = <<>>
  /\ scored = <<>>
  /\ top_sections = <<>>
  /\ collection_output = <<>>
  /\ pcOutput = "segment"

\* doc_sections = self.document_processor.extract_document_sections(doc);
\* all_sections.extend(doc_sections), for the next document of the collection
SegmentNext ==
  /\ pcOutput = "segment"
  /\ \E pages \in OutputDocuments :
       \E d \in 1..MaxOutDocs :
         /\ \A i \in 1..Len(segmented) : segmented[i].document # DocName(d)
         /\ \A e \in 1..(d - 1) :
              \E i \in 1..Len(segmented) : segmented[i].document = DocName(e)
         /\ segmented' = segmented \o extract_document_sections(DocName(d), pages)
  /\ UNCHANGED <<scored, top_sections, collection_output, pcOutput>>
  /\ UNCHANGED <<varsOutline, varsHeading, varsStats, varsRank, varsPersona, varsBatch, varsFlow,
               varsSegment, varsLine, varsTitle, varsLevel, varsScoring>>

\* scored_sections = self.relevance_scorer.score_sections(all_sections, ...):
\* every section, in order, with a relevance_score added
ScoreSegmented ==
  /\ pcOutput = "segment"
  /\ \E table \in ScoreTables :
       scored' =
         [i \in 1..Len(segmented) |->
            [relevance_score |-> <<table[((i - 1) % Len(table)) + 1], 100>>]
              @@ segmented[i]]
  /\ pcOutput' = "rank"
  /\ UNCHANGED <<segmented, top_sections, collection_output>>
  /\ UNCHANGED <<varsOutline, varsHeading, varsStats, varsRank, varsPersona, varsBatch, varsFlow,
               varsSegment, varsLine, varsTitle, varsLevel, varsScoring>>

\* selected_sections = self.section_ranker.rank_and_select(scored_sections)
RankScored ==
  /\ pcOutput = "rank"
  /\ top_sections' = rank_and_select(scored)
  /\ pcOutput' = "generate"
  /\ UNCHANGED <<segmented, scored, collection_output>>
  /\ UNCHANGED <<varsOutline, varsHeading, varsStats, varsRank, varsPersona, varsBatch, varsFlow,
               varsSegment, varsLine, varsTitle, varsLevel, varsScoring>>

\* result = self.generate_output(config, selected_sections)
GenerateResult ==
  /\ pcOutput = "generate"
  /\ collection_output' = <<generate_output(DefaultConfig(<<>>), top_sections)>>
  /\ pcOutput' = "generated"
  /\ UNCHANGED <<segmented, scored, top_sections>>
  /\ UNCHANGED <<varsOutline, varsHeading, varsStats, varsRank, varsPersona, varsBatch, varsFlow,
               varsSegment, varsLine, varsTitle, varsLevel, varsScoring>>

NextOutput == SegmentNext \/ ScoreSegmented \/ RankScored \/ GenerateResult

SpecOutput == InitOutput /\ [][NextOutput]_vars

\* C11: the result of a collection with n selected sections has n entries
\* under extracted_sections, in rank order with importance_rank 1..n, and
\* min(5, n) entries under sub_section_analysis, which are those of the ranks
\* 1..min(5, n) in order; a refined_text has at most 503 characters and ends
\* in "..." exactly when the content of its section has more than 500
C11_ResultShape ==
  pcOutput = "generated" =>
    LET n == Len(top_sections)
        extracted == collection_output[1].extracted_sections
        analysis == collection_output[1].sub_section_analysis
    IN  /\ Len(extracted) = n
        /\ \A i \in 1..n :
             /\ extracted[i].importance_rank = i
             /\ top_sections[i].rank = i
             /\ extracted[i].section_title = top_sections[i].title
             /\ extracted[i].document = top_sections[i].document
             /\ extracted[i].page_number = top_sections[i].page
        /\ Len(analysis) = (IF n < 5 THEN n ELSE 5)
        /\ \A i \in 1..Len(analysis) :
             /\ analysis[i].document = top_sections[i].document
             /\ analysis[i].page_number = top_sections[i].page
             /\ Len(analysis[i].refined_text) <= 503
             /\ \A k \in 1..Len(analysis[i].refined_text) :
                  k <= 500 => analysis[i].refined_text[k] = top_sections[i].content[k]
             /\ EndsWith(analysis[i].refined_text, <<".", ".", ".">>)
                  <=> Len(top_sections[i].content) > 500

\* more than five sections are selected; among the first five there are a
\* content of more than 500 characters, one of exactly 500, and one of at most
\* 500 whose last line ends in "..."
C11_Witness ==
  /\ pcOutput = "generated"
  /\ Len(top_sections) > 5
  /\ \E i \in 1..5 : Len(top_sections[i].content) > 500
  /\ \E i \in 1..5 : Len(top_sections[i].content) = 500
  /\ \E i \in 1..5 :
       /\ Len(top_sections[i].content) <= 500
       /\ EndsWith(top_sections[i].content, <<".", ".", ".", " ">>)

----------------------------------------------------------------------------
(* The title extractor on the elements of one document                     *)

MaxTitleElements == 3    \* elements added one by one

TitleElement(t, size, bold, italic, page_num) ==
  [text |-> t, max_size |-> size, is_bold |-> bold, is_italic |-> italic,
   page |-> page_num]

\* lines as extract_formatted_text gives them
TitleLines ==
  { TitleElement(<<"A","n","n","u","a","l"," ","R","e","p","o","r","t"," ","O","f"," ","T","h","i","n","g","s">>,
                 10, FALSE, FALSE, 0),
    TitleElement(<<"a","n","n","u","a","l"," ","r","e","p","o","r","t"," ","o","f"," ","t","h","i","n","g","s">>,
                 10, FALSE, TRUE, 0),
    TitleElement(<<"a","b">>,
                 10, FALSE, FALSE, 0),
    TitleElement(<<"A","n","n","u","a","l"," ","R","e","p","o","r","t"," ","2","0","2","3">>,
                 28, TRUE, FALSE, 0),
    TitleElement(<<"1","."," ","S","c","o","p","e"," ","O","f"," ","W","o","r","k">>,
                 14, TRUE, FALSE, 0),
    TitleElement(<<"B","i","g"," ","T","i","t","l","e"," ","O","n"," ","P","a","g","e"," ","T","w","o">>,
                 28, TRUE, FALSE, 1),
    TitleElement(<<"A", " ">> \o Repeat("x", MaxTitleLength + 10),
                 28, TRUE, FALSE, 0) }

\* a first page that begins with 15 lines of two characters
ShortLines == [i \in 1..FirstPageLimit |-> TitleElement(<<"a","b">>, 10, FALSE, FALSE, 0)]

InitTitle ==
  /\ IdleOutline /\ IdleHeading /\ IdleStats /\ IdleRank /\ IdlePersona /\ IdleBatch /\ IdleFlow /\ IdleSegment /\ IdleLine /\ IdleOutput /\ IdleLevel /\ IdleScoring
  /\ title_elements \in {<<>>, ShortLines}
  /\ document_title = <<>>
  /\ pcTitle = "extract"

\* extract_formatted_text: text_elements.append(...)
AddTitleElement ==
  /\ pcTitle = "extract"
  /\ Len(title_elements) < MaxTitleElements
       \/ Len(title_elements) - FirstPageLimit \in 0..(MaxTitleElements - 2)
  /\ \E e \in TitleLines : title_elements' = Append(title_elements, e)
  /\ UNCHANGED <<document_title, pcTitle>>
  /\ UNCHANGED <<varsOutline, varsHeading, varsStats, varsRank, varsPersona, varsBatch, varsFlow,
               varsSegment, varsLine, varsOutput, varsLevel, varsScoring>>

\* doc_stats = self.analyze_document_statistics(text_elements);
\* title = self.extract_document_title(text_elements, doc_stats)
ExtractTitle ==
  /\ pcTitle = "extract"
  /\ document_title' =
       <<extract_document_title(title_elements,
                                analyze_document_statistics(title_elements))>>
  /\ pcTitle' = "titled"
  /\ UNCHANGED title_elements
  /\ UNCHANGED <<varsOutline, varsHeading, varsStats, varsRank, varsPersona, varsBatch, varsFlow,
               varsSegment, varsLine, varsOutput, varsLevel, varsScoring>>

NextTitle == AddTitleElement \/ ExtractTitle

SpecTitle == InitTitle /\ [][NextTitle]_vars

\* the candidates of the document: the stripped texts of 3 characters or more
\* among the first 15 elements of page 0, each with the sum 0.4 * size + 0.2 *
\* position + 0.2 * content + 0.2 * style of its scores, in thousandths
ClaimedCandidates ==
  LET first_page == FirstPageElements(title_elements)
      dominant == analyze_document_statistics(title_elements).dominant_size
      qualifies == {i \in 1..Len(first_page) :
                      Len(Strip(first_page[i].text)) >= 3}
  IN  [k \in 1..Cardinality(qualifies) |->
         LET i == CHOOSE j \in qualifies :
                    Cardinality({h \in qualifies : h <= j}) = k
         IN  [text |-> Strip(first_page[i].text),
              total |-> 40 * calculate_size_score(first_page[i], dominant)
                          + 20 * calculate_position_score(i - 1)
                          + 2 * calculate_content_score(Strip(first_page[i].text))[1]
                          + 20 * calculate_style_score(first_page[i])]]

\* the candidates with the maximum sum
BestPositions(candidates) ==
  {i \in 1..Len(candidates) :
     \A j \in 1..Len(candidates) : candidates[j].total <= candidates[i].total}

\* C18: extract_document_title takes, among the first 15 elements of page 0
\* with a text of 3 characters or more, the candidate with the maximum total
\* 0.4 * size + 0.2 * position + 0.2 * content + 0.2 * style, the earliest one
\* when several have that total; without a candidate the title is "Document"
C18_EarliestBestCandidate ==
  pcTitle = "titled" =>
    LET candidates == ClaimedCandidates
        best == BestPositions(candidates)
    IN  IF candidates = <<>> THEN document_title[1] = W_Document
        ELSE \E i \in best :
               /\ \A j \in best : i <= j
               /\ document_title[1] = clean_title(candidates[i].text)

\* the title is always that of a candidate with the maximum total, and
\* "Document" without a candidate
C18_SomeBestCandidate ==
  pcTitle = "titled" =>
    LET candidates == ClaimedCandidates
    IN  IF candidates = <<>> THEN document_title[1] = W_Document
        ELSE \E i \in BestPositions(candidates) :
               document_title[1] = clean_title(candidates[i].text)

\* when the candidates with the maximum total all have the same four scores,
\* the earliest of them gives the title
C18_EarliestOfEqualScores ==
  pcTitle = "titled" =>
    LET candidates == TitleCandidates(FirstPageElements(title_elements), 1,
                        analyze_document_statistics(title_elements).dominant_size)
        best == {i \in 1..Len(candidates) :
                   \A j \in 1..Len(candidates) : candidates[j][1][1] <= candidates[i][1][1]}
    IN  (best # {} /\ \A i, j \in best : candidates[i][1] = candidates[j][1]) =>
          \E i \in best :
            /\ \A j \in best : i <= j
            /\ document_title[1] = clean_title(candidates[i][2])

\* two candidates have the maximum total and the later one gave the title
C18_LaterCandidateTaken ==
  /\ pcTitle = "titled"
  /\ LET candidates == ClaimedCandidates
         best == BestPositions(candidates)
     IN  /\ Cardinality(best) = 2
         /\ \E i \in best :
              /\ \E j \in best : j < i
              /\ document_title[1] = clean_title(candidates[i].text)
              /\ \A j \in best : j < i =>
                   document_title[1] # clean_title(candidates[j].text)

----------------------------------------------------------------------------
(* The level of one heading                                                *)

LevelTexts ==
  { <<"1","."," ","I","n","t","r","o","d","u","c","t","i","o","n">>,
    <<"C","h","a","p","t","e","r"," ","1">>,
    <<"c","h","a","p","t","e","r"," ","1","2"," ","O","v","e","r","v","i","e","w">>,
    <<"P","a","r","t"," ","2">>,
    <<"S","e","c","t","i","o","n"," ","3">>,
    <<"S","E","C","T","I","O","N"," ","4"," ","D","e","t","a","i","l","s">>,
    <<"1",".","2"," ","B","a","c","k","g","r","o","u","n","d">>,
    <<"2",".","1","0">>,
    <<"3"," ","M","e","t","h","o","d","s">>,
    <<"7","."," ","r","e","s","u","l","t","s">>,
    <<"A","b","s","t","r","a","c","t">>,
    <<"R","E","F","E","R","E","N","C","E","S">>,
    <<"C","o","n","c","l","u","s","i","o","n">>,
    <<"O","v","e","r","v","i","e","w">>,
    <<"I","n","t","r","o","d","u","c","t","i","o","n"," ","t","o"," ","X">>,
    <<"C","h","a","p","t","e","r"," ","O","n","e">>,
    <<"1",".","I","n","t","r","o","d","u","c","t","i","o","n">>,
    <<"C","h","a","p","t","e","r"," ","1",".","2"," ","S","c","o","p","e">> }

LevelSizes == {12, 14, 15, 16, 18}

\* size_thresholds h1 and h2 in tenths of a point; h3 is not read
LevelThresholds ==
  {[h1 |-> a, h2 |-> b, h3 |-> 110] : a \in {150, 160, 180, 200}, b \in {130, 150}}

InitLevel ==
  /\ IdleOutline /\ IdleHeading /\ IdleStats /\ IdleRank /\ IdlePersona /\ IdleBatch /\ IdleFlow /\ IdleSegment /\ IdleLine /\ IdleOutput /\ IdleTitle /\ IdleScoring
  /\ level_elem \in {Element(t, size, FALSE) : t \in LevelTexts, size \in LevelSizes}
  /\ level_thresholds \in LevelThresholds
  /\ heading_level = ""
  /\ pcLevel = "level"

\* level = self.determine_heading_level(elem, thresholds, text), with
\* text = elem["text"].strip()
DetermineLevel ==
  /\ pcLevel = "level"
  /\ heading_level' =
       determine_heading_level(level_elem, level_thresholds, Strip(level_elem.text))
  /\ pcLevel' = "levelled"
  /\ UNCHANGED <<level_elem, level_thresholds>>
  /\ UNCHANGED <<varsOutline, varsHeading, varsStats, varsRank, varsPersona, varsBatch, varsFlow,
               varsSegment, varsLine, varsOutput, varsTitle, varsScoring>>

NextLevel == DetermineLevel

SpecLevel == InitLevel /\ [][NextLevel]_vars

\* C14: determine_heading_level applies its overrides in a fixed priority:
\* "Chapter" or "Part" and a number gives H1; else "Section" and a number gives
\* H2; else a multi-level number (digits, dot, digits) gives H3 whatever the
\* size; else a single-level number gives H2 when the size-based level is not
\* H3; else a text that is, in lower case, abstract, introduction, conclusion
\* or references gives H1; else the size-based level (H1 from the h1
\* threshold, H2 from the h2 threshold, else H3). "1. Introduction" of size 16
\* with an h2 threshold of 15 is H2 for every h1 threshold
C14_OverridePriority ==
  pcLevel = "levelled" =>
    LET text == Strip(level_elem.text)
        size == level_elem.max_size
        base == IF 10 * size >= level_thresholds.h1 THEN "H1"
                ELSE IF 10 * size >= level_thresholds.h2 THEN "H2" ELSE "H3"
        chapter == MatchWordNumber(text, {W_Chapter, W_Part})
        section == MatchWordNumber(text, {W_Section})
        multi == MatchNumberDotNumber(text)
        single == MatchSingleNumber(text) /\ base # "H3"
        word == IsFrontMatterWord(text)
    IN  /\ chapter => heading_level = "H1"
        /\ ~chapter /\ section => heading_level = "H2"
        /\ ~chapter /\ ~section /\ multi => heading_level = "H3"
        /\ ~chapter /\ ~section /\ ~multi /\ single => heading_level = "H2"
        /\ ~chapter /\ ~section /\ ~multi /\ ~single /\ word => heading_level = "H1"
        /\ ~chapter /\ ~section /\ ~multi /\ ~single /\ ~word => heading_level = base
        /\ (text = <<"1","."," ","I","n","t","r","o","d","u","c","t","i","o","n">> /\ size = 16 /\ level_thresholds.h2 = 150)
             => heading_level = "H2"

\* "1. Introduction" of size 16 has been levelled with an h2 threshold of 15
\* and an h1 threshold above 16
C14_Witness ==
  /\ pcLevel = "levelled"
  /\ level_elem.text = <<"1","."," ","I","n","t","r","o","d","u","c","t","i","o","n">>
  /\ level_elem.max_size = 16
  /\ level_thresholds.h2 = 150
  /\ level_thresholds.h1 > 160
  /\ heading_level = "H2"


----------------------------------------------------------------------------
(* RelevanceScorer on the profiles of PersonaAnalyzer                      *)

\* the persona and the job of the configuration
ScoringConfigs ==
  {<<<<"P","h","D"," ","R","e","s","e","a","r","c","h","e","r"," ","i","n"," ","C","o","m","p","u","t","a","t","i","o","n","a","l"," ","B","i","o","l","o","g","y">>,
     <<"P","r","e","p","a","r","e"," ","a"," ","l","i","t","e","r","a","t","u","r","e"," ","r","e","v","i","e","w">>>>,
   <<<<"P","h","D"," ","R","e","s","e","a","r","c","h","e","r"," ","i","n"," ","C","o","m","p","u","t","a","t","i","o","n","a","l"," ","B","i","o","l","o","g","y">>,
     <<>>>>,
   <<<<"I","n","v","e","s","t","m","e","n","t"," ","A","n","a","l","y","s","t">>,
     <<"A","n","a","l","y","z","e"," ","r","e","v","e","n","u","e"," ","t","r","e","n","d","s">>>>,
   <<<<"U","n","d","e","r","g","r","a","d","u","a","t","e"," ","C","h","e","m","i","s","t","r","y"," ","S","t","u","d","e","n","t">>,
     <<"I","d","e","n","t","i","f","y"," ","k","e","y"," ","c","o","n","c","e","p","t","s"," ","f","o","r"," ","e","x","a","m"," ","p","r","e","p","a","r","a","t","i","o","n">>>>,
   <<<<"S","o","f","t","w","a","r","e"," ","E","n","g","i","n","e","e","r">>,
     <<"A","n","a","l","y","z","e"," ","r","e","v","e","n","u","e"," ","t","r","e","n","d","s">>>>,
   <<<<"T","r","a","v","e","l"," ","P","l","a","n","n","e","r">>,
     <<"P","r","e","p","a","r","e"," ","a"," ","l","i","t","e","r","a","t","u","r","e"," ","r","e","v","i","e","w">>>>,
   <<<<>>,
     <<>>>>}

ScoringTitles ==
  {<<"R","e","s","u","l","t","s"," ","2","0","2","4">>,
   <<"M","e","t","h","o","d","o","l","o","g","y">>,
   <<"I","n","t","r","o","d","u","c","t","i","o","n">>,
   <<"N","o","t","e","s">>}

\* n words of text w, each followed by a space
RepeatWord(w, n) == [i \in 1..(n * (Len(w) + 1)) |->
                       IF i % (Len(w) + 1) = 0 THEN " " ELSE w[i % (Len(w) + 1)]]

KeywordLine ==
  <<"F","i","n","a","n","c","i","a","l"," ","i","n","v","e","s","t","m","e","n","t",":"," ","r","e","v","e","n","u","e",","," ","m","a","r","k","e","t"," ","a","n","a","l","y","s","i","s"," ","b","y"," ","t","h","e"," ","a","n","a","l","y","s","t",";"," ","t","r","e","n","d","s"," ","4","2","%"," ","3",".","1","4"," ","1",".","2",".","3"," ","x","9"," ","m","e","a","n"," ">>

ScoringContents ==
  {<<"W","e"," ","d","i","d"," ","i","t","."," ">>,
   KeywordLine,
   RepeatWord(<<"7">>, 49),
   RepeatWord(<<"7">>, 50),
   RepeatWord(<<"a","b">>, 199),
   RepeatWord(<<"7">>, 200),
   RepeatWord(<<"a","b">>, 499),
   KeywordLine \o RepeatWord(<<"7">>, 500)}

ScoringPages == {0, 1, 2, 3, 5, 6}

InitScoring ==
  /\ score_profile = <<>>
  /\ score_section = <<>>
  /\ sub_scores = <<>>
  /\ relevance = <<>>
  /\ pcScoring = "profile"
  /\ IdleOutline /\ IdleHeading /\ IdleStats /\ IdleRank /\ IdlePersona /\ IdleBatch /\ IdleFlow /\ IdleSegment /\ IdleLine /\ IdleOutput /\ IdleTitle /\ IdleLevel

\* persona_profile = self.persona_analyzer.create_persona_profile(...)
ProfileForScoring ==
  /\ pcScoring = "profile"
  /\ \E c \in ScoringConfigs :
       score_profile' = create_persona_profile(c[1], c[2])
  /\ pcScoring' = "section"
  /\ UNCHANGED <<score_section, sub_scores, relevance>>
  /\ UNCHANGED <<varsOutline, varsHeading, varsStats, varsRank, varsPersona, varsBatch, varsFlow,
               varsSegment, varsLine, varsOutput, varsTitle, varsLevel>>

\* score_sections, the head of the loop: the next section of the list
TakeSection ==
  /\ pcScoring = "scored"
  /\ score_section' = <<>>
  /\ sub_scores' = <<>>
  /\ relevance' = <<>>
  /\ pcScoring' = "section"
  /\ UNCHANGED score_profile
  /\ UNCHANGED <<varsOutline, varsHeading, varsStats, varsRank, varsPersona, varsBatch, varsFlow,
               varsSegment, varsLine, varsOutput, varsTitle, varsLevel>>

\* score_sections, the body of the loop: calculate_relevance_score of the
\* section under the profile
ScoreSection ==
  /\ pcScoring = "section"
  /\ \E t \in ScoringTitles, content \in ScoringContents, page \in ScoringPages :
       LET section == Section(SegmentDocName, t, content, page,
                              classify_section_type(t))
       IN  /\ score_section' = section
           /\ sub_scores' = SubScores(section, score_profile)
           /\ relevance' = calculate_relevance_score(section, score_profile)
  /\ pcScoring' = "scored"
  /\ UNCHANGED score_profile
  /\ UNCHANGED <<varsOutline, varsHeading, varsStats, varsRank, varsPersona, varsBatch, varsFlow,
               varsSegment, varsLine, varsOutput, varsTitle, varsLevel>>

NextScoring ==
  \/ ProfileForScoring
  \/ TakeSection
  \/ ScoreSection

SpecScoring == InitScoring /\ [][NextScoring]_vars

InUnitTenths(x) == x \in 0..10

InUnitQuotient(q) == q[2] > 0 /\ 0 <= q[1] /\ q[1] <= q[2]

WeightNames ==
  {"keyword_match", "section_type", "content_depth", "quantitative_content",
   "position_importance"}

\* C17: for every section and every profile of create_persona_profile, each of
\* the five sub-scores lies in [0,1], the five weights are not negative, and
\* the relevance score lies in [0,1]
C17_ScoresInUnitInterval ==
  /\ score_profile # <<>> =>
       /\ DOMAIN score_profile.relevance_weights = WeightNames
       /\ \A w \in WeightNames : score_profile.relevance_weights[w] >= 0
  /\ pcScoring = "scored" =>
       /\ InUnitQuotient(sub_scores.keyword)
       /\ InUnitTenths(sub_scores.section_type)
       /\ InUnitTenths(sub_scores.content_depth)
       /\ InUnitTenths(sub_scores.quantitative)
       /\ InUnitTenths(sub_scores.position)
       /\ InUnitQuotient(relevance)

WeightSum(weights) ==
  weights.keyword_match + weights.section_type + weights.content_depth
    + weights.quantitative_content + weights.position_importance

\* a business analyst's profile, whose weights add up to more than 1, scores
\* a section whose weighted total is more than 1: the score is 1
C17_Witness ==
  /\ pcScoring = "scored"
  /\ score_profile.persona_type = "business_analyst"
  /\ WeightSum(score_profile.relevance_weights) > 100
  /\ LET total == WeightedTotal(sub_scores, score_profile.relevance_weights)
     IN  total[1] > total[2]
  /\ relevance = <<1, 1>>

\* the five persona types are all scored
C17_EveryPersonaTypeScored ==
  pcScoring = "scored" =>
    score_profile.persona_type \in
      {"academic_researcher", "business_analyst", "student",
       "technical_professional", "general_professional"}

=============================================================================
